---- MODULE Spec2Model ----
(***************************************************************************)
(* Verification model of the ls-azure-night-runner mission dispatch core:  *)
(* mission loading and readiness selection (missions.py), sandbox branch   *)
(* naming (git_sandbox.py), remote sandbox synchronisation                 *)
(* (executors/nm_011_scheduler_readme.py), executor routing                *)
(* (dispatcher.py), the dispatch loop (main.py), the run log (results.py), *)
(* the run-artifact pipeline with its remote cycle (cycle.py), sandbox     *)
(* branch preparation (git_sandbox.py), the memory probe (dispatcher.py),  *)
(* the README executor and the bootstrap of ls-spec (spec_bootstrap.py).   *)
(***************************************************************************)
EXTENDS Integers, Sequences, FiniteSets, TLC

VARIABLES
    \* select_ready_missions: its arguments, its return value, its position
    missions, max_missions, ready, selPc,
    \* load_missions: the NM-*.yaml files of the missions directory, the list built
    missionFiles, loaded, loadIdx, loadPc,
    \* branch_name_for_mission: two missions, the agent and date arguments, the
    \* UTC day of the clock, the two names returned
    bnMissionA, bnMissionB, bnAgent, bnDate, bnNameA, bnNameB, bnPc, utcDay,
    \* sync_with_remote_sandbox: the repository, the remote, the git outcomes
    localBranches, remoteBranches, trackingRefs, head, headCommit, gitFault,
    syncBranch, syncPc, missing_remote, syncResult, resetRan,
    \* run_mission_executor: the mission, the loop position, the executor calls
    dMission, dPc, dIndex, dBranch, dCalls, dResults, dReturn, dBranchComputed,
    \* get_results_root and write_mission_result: the two results roots, the
    \* run logs, the clock, the calls made
    preferredOk, fallbackOk, resultFiles, recCalls, recOutcome, recCount, clock,
    \* the dispatch loop of main
    mReady, mIdx, mStatus, mPc,
    \* parse_mission_results: the log file, the loop position, what was found
    parseFile, parseIdx, parseResults, parseWarnings, parsePc,
    \* process_cycle_artifacts: the run directory, the arguments, the locals
    runDir, pLogsArg, pExecArg, pPc, logs_text, execution, mission_results,
    worker_results_path, pEvents, pReturn, pInvocation, pBefore, pUnchanged,
    \* main of cycle.py in remote mode
    cyPc, cyCommands, cyFailed, cyExit, cyRunDir, cyLogs, cyExec,
    \* create_local_sandbox_branches: the working copies, the loop position,
    \* the branch names computed, the list returned
    sbRepos, sbBefore, sbIdx, sbPrepared, sbCreated,
    \* run_nm_910_memory_probe: the environment, the argument, what was done
    prKey, prBaseUrl, prModel, prBranch, prMissing, prConstructed, prInvoked,
    prLogged, prReturn, prPc,
    \* run_nm_011: the working copy, origin, the argument, the result
    nmIsRepo, nmBranch, nmWork, nmHead, nmRemote, nmIgnored, nmPushes, nmResult,
    nmInvocation, nmPc,
    \* latest_execution_name: the executions listed and the outcome
    leExecutions, leOutcome, lePc,
    \* ensure_spec_repo: the disk, the environment, the clone commands run
    bsRoot, bsParent, bsToken, bsCloneAttempts, bsBefore, bsRemovable, bsPc

selVars == <<missions, max_missions, ready, selPc>>
loadVars == <<missionFiles, loaded, loadIdx, loadPc>>
bnVars == <<bnMissionA, bnMissionB, bnAgent, bnDate, bnNameA, bnNameB, bnPc>>
syncVars == <<localBranches, remoteBranches, trackingRefs, head, headCommit, gitFault,
              syncBranch, syncPc, missing_remote, syncResult, resetRan>>
dVars == <<dMission, dPc, dIndex, dBranch, dCalls, dResults, dReturn, dBranchComputed>>
recVars == <<preferredOk, fallbackOk, resultFiles, recCalls, recOutcome, recCount>>
mainVars == <<mReady, mIdx, mStatus, mPc>>
parseVars == <<parseFile, parseIdx, parseResults, parseWarnings, parsePc>>
pipeVars == <<runDir, pLogsArg, pExecArg, pPc, logs_text, execution, mission_results,
              worker_results_path, pEvents, pReturn, pInvocation, pBefore, pUnchanged>>
cyVars == <<cyPc, cyCommands, cyFailed, cyExit, cyRunDir, cyLogs, cyExec>>
coreVars == <<selVars, loadVars, bnVars, utcDay, syncVars, dVars>>
sbVars == <<sbRepos, sbBefore, sbIdx, sbPrepared, sbCreated>>
probeVars == <<prKey, prBaseUrl, prModel, prBranch, prMissing, prConstructed, prInvoked,
               prLogged, prReturn, prPc>>
nmVars == <<nmIsRepo, nmBranch, nmWork, nmHead, nmRemote, nmIgnored, nmPushes, nmResult,
            nmInvocation, nmPc>>
leVars == <<leExecutions, leOutcome, lePc>>
bsVars == <<bsRoot, bsParent, bsToken, bsCloneAttempts, bsBefore, bsRemovable, bsPc>>
toolVars == <<probeVars, nmVars, leVars, bsVars>>
runVars == <<recVars, clock, mainVars, parseVars, pipeVars, cyVars, sbVars, toolVars>>
vars == <<coreVars, runVars>>

----------------------------------------------------------------------------
(* Bounds of the model *)

\* longest mission list handed to select_ready_missions
MaxMissions == 3
\* largest max_missions tried (the smallest tried is -1)
MaxCount == 2

----------------------------------------------------------------------------
(* Python values.  A str is a sequence of one-character strings; every     *)
(* value is a record of one shape so that values of different Python types *)
(* can be compared: t is the type, s the text of a str, n the number of an *)
(* int or bool (True is 1, False is 0).  "absent" is a key a dict does not *)
(* have.                                                                   *)

PyStr(chars) == [t |-> "str", s |-> chars, n |-> 0]
PyInt(i) == [t |-> "int", s |-> <<>>, n |-> i]
PyBool(b) == [t |-> "bool", s |-> <<>>, n |-> IF b THEN 1 ELSE 0]
None == [t |-> "none", s |-> <<>>, n |-> 0]
Absent == [t |-> "absent", s |-> <<>>, n |-> 0]

\* dict.get(key): None when the key is absent
Get(v) == IF v.t = "absent" THEN None ELSE v

\* dict.get(key, default)
GetDefault(v, default) == IF v.t = "absent" THEN default ELSE v

\* Python truth value: None, "", 0 and False are false
Truthy(v) ==
    CASE v.t = "none" -> FALSE
      [] v.t = "absent" -> FALSE
      [] v.t = "str" -> v.s # <<>>
      [] v.t \in {"int", "bool"} -> v.n # 0
      [] OTHER -> TRUE

\* x or y
Or(x, y) == IF Truthy(x) THEN x ELSE y

\* isinstance(v, int): bool is a subclass of int
IsInstanceInt(v) == v.t \in {"int", "bool"}

\* The characters used, in code point order
Alphabet == <<"-", "/", "0", "1", "2", "3", "4", "5", "6", "7", "8", "9",
              "F", "L", "M", "N", "T",
              "a", "b", "c", "d", "e", "f", "g", "h", "i", "j", "k", "l", "m",
              "n", "o", "p", "q", "r", "s", "t", "u", "v", "w", "x", "y", "z">>

Ord(c) == CHOOSE i \in 1..Len(Alphabet) : Alphabet[i] = c

\* str < str: lexicographic by code point, a proper prefix is smaller
RECURSIVE StrLess(_, _)
StrLess(a, b) ==
    IF b = <<>> THEN FALSE
    ELSE IF a = <<>> THEN TRUE
    ELSE IF Head(a) = Head(b) THEN StrLess(Tail(a), Tail(b))
    ELSE Ord(Head(a)) < Ord(Head(b))

READY == <<"r", "e", "a", "d", "y">>
DRAFT == <<"d", "r", "a", "f", "t">>
L1 == <<"L", "1">>
L2 == <<"L", "2">>
NM(a, b, c) == <<"N", "M", "-", a, b, c>>

----------------------------------------------------------------------------
(* Missions.  A mission is the dict yaml.safe_load returned: the fields    *)
(* the core reads, each possibly absent, and a title passed through.  risk *)
(* is a mapping (t = "dict", with its tier), or absent, or a scalar.       *)

Risk(tier) == [t |-> "dict", tier |-> tier]
RiskAbsent == [t |-> "absent", tier |-> Absent]
RiskScalar == [t |-> "str", tier |-> Absent]

\* repos: a list of entries (t = "list"), or None, absent, or another value
ReposList(items) == [t |-> "list", items |-> items]
ReposNone == [t |-> "none", items |-> <<>>]
ReposAbsent == [t |-> "absent", items |-> <<>>]
ReposScalar == [t |-> "str", items |-> <<>>]

Mission(status, risk, priority, mission_id, title) ==
    [status |-> status, risk |-> risk, priority |-> priority,
     mission_id |-> mission_id, title |-> title, repos |-> ReposAbsent,
     source |-> Absent]

\* The missions lists are drawn from
MissionPool ==
    { Mission(PyStr(READY), Risk(PyStr(L1)), PyInt(10), PyStr(NM("0","0","1")), "a"),
      Mission(PyStr(READY), Risk(PyStr(L1)), PyInt(10), PyStr(NM("0","0","2")), "a"),
      Mission(PyStr(READY), Risk(PyStr(L1)), PyInt(30), PyStr(NM("0","0","1")), "c"),
      Mission(PyStr(READY), Risk(PyStr(L1)), Absent, PyStr(NM("0","0","3")), "a"),
      Mission(PyStr(READY), Risk(PyStr(L1)), PyStr(<<"1", "0">>), PyStr(NM("0","0","2")), "s"),
      Mission(PyStr(READY), Risk(PyStr(L1)), PyInt(10), PyStr(NM("0","0","1")), "b"),
      Mission(PyStr(READY), Risk(PyStr(L1)), PyInt(10), None, "n"),
      Mission(PyStr(READY), Risk(PyStr(L1)), PyBool(TRUE), PyStr(NM("0","0","3")), "t"),
      Mission(PyStr(DRAFT), Risk(PyStr(L1)), PyInt(0), PyStr(NM("0","0","1")), "d"),
      Mission(PyStr(READY), Risk(PyStr(L2)), PyInt(0), PyStr(NM("0","0","2")), "l"),
      Mission(Absent, Risk(PyStr(L1)), PyInt(0), PyStr(NM("0","0","3")), "x"),
      Mission(PyStr(READY), RiskAbsent, PyInt(0), PyStr(NM("0","0","1")), "r"),
      Mission(PyStr(READY), RiskScalar, PyInt(0), PyStr(NM("0","0","3")), "e"),
      Mission(PyStr(READY), Risk(Absent), PyInt(0), PyStr(NM("0","0","1")), "m") }

SeqsUpTo(S, n) == UNION { [1..k -> S] : k \in 0..n }

----------------------------------------------------------------------------
(* select_ready_missions *)

\* tier = risk.get("tier") if isinstance(risk, dict) else None, risk being
\* mission.get("risk") or {}
TierOf(mission) ==
    IF mission.risk.t = "dict" THEN Get(mission.risk.tier) ELSE None

\* the filter with "and" written for "or": a mission passes on either test
EligibleEither(mission) ==
    \/ Get(mission.status) = PyStr(READY)
    \/ TierOf(mission) = PyStr(L1)

\* the filter of the loop: not (status != "ready" or tier != "L1")
Eligible(mission) ==
    /\ Get(mission.status) = PyStr(READY)
    /\ TierOf(mission) = PyStr(L1)

\* priority_value if isinstance(priority_value, int) else 50
DefaultPriority == 50
PriorityOf(mission) ==
    IF IsInstanceInt(Get(mission.priority)) THEN Get(mission.priority).n
    ELSE DefaultPriority

\* mission.get("mission_id") or ""
SortIdOf(mission) == Or(Get(mission.mission_id), PyStr(<<>>)).s

\* the tuple appended to ready
ReadyEntry(mission) ==
    [priority |-> PriorityOf(mission), mission_id |-> SortIdOf(mission),
     mission |-> mission]

\* a sort key without the mission_id tie-break
KeyLessPriorityOnly(a, b) == a.priority < b.priority

\* (item[0], item[1]) < (item[0], item[1]) of two entries
KeyLess(a, b) ==
    \/ a.priority < b.priority
    \/ a.priority = b.priority /\ StrLess(a.mission_id, b.mission_id)

\* the loop of lines 32-41: the entries of the eligible missions, in input order
RECURSIVE ReadyEntries(_)
ReadyEntries(ms) ==
    IF ms = <<>> THEN <<>>
    ELSE IF Eligible(Head(ms))
         THEN <<ReadyEntry(Head(ms))>> \o ReadyEntries(Tail(ms))
         ELSE ReadyEntries(Tail(ms))

\* list.sort(key=...) is stable: an entry goes after every entry whose key is
\* not greater than its own
RECURSIVE InsertStable(_, _)
InsertStable(sorted, e) ==
    IF sorted = <<>> THEN <<e>>
    ELSE IF KeyLess(e, Head(sorted)) THEN <<e>> \o sorted
    ELSE <<Head(sorted)>> \o InsertStable(Tail(sorted), e)

RECURSIVE SortStable(_)
SortStable(es) ==
    IF es = <<>> THEN <<>>
    ELSE InsertStable(SortStable(SubSeq(es, 1, Len(es) - 1)), es[Len(es)])

\* ready[:n]: a negative n counts from the end
SliceTo(s, n) ==
    LET stop == IF n < 0 THEN (IF Len(s) + n < 0 THEN 0 ELSE Len(s) + n)
                ELSE IF n > Len(s) THEN Len(s) ELSE n
    IN  SubSeq(s, 1, stop)

select_ready_missions(ms, n) ==
    LET sorted == SortStable(ReadyEntries(ms))
        kept == SliceTo(sorted, n)
    IN  [i \in 1..Len(kept) |-> kept[i].mission]

SelIdle ==
    /\ missions = <<>>
    /\ max_missions = 0
    /\ ready = <<>>
    /\ selPc = "idle"

SelInit ==
    /\ missions \in SeqsUpTo(MissionPool, MaxMissions)
    /\ max_missions \in -1..MaxCount
    /\ ready = <<>>
    /\ selPc = "start"

\* the call select_ready_missions(missions, max_missions)
SelectReady ==
    /\ selPc = "start"
    /\ ready' = select_ready_missions(missions, max_missions)
    /\ selPc' = "done"
    /\ UNCHANGED <<missions, max_missions>>

\* the same collection of missions arrives in another order (two neighbours
\* swapped) and is selected from again
SelectReordered ==
    /\ selPc = "done"
    /\ \E i \in 1..(Len(missions) - 1) :
          LET swapped == [missions EXCEPT ![i] = missions[i + 1],
                                          ![i + 1] = missions[i]]
          IN  /\ missions' = swapped
              /\ ready' = select_ready_missions(swapped, max_missions)
    /\ UNCHANGED <<max_missions, selPc>>

----------------------------------------------------------------------------
(* load_missions *)

\* most NM-*.yaml files the missions directory holds
MaxFiles == 3

Digit(i) == <<"0", "1", "2", "3", "4", "5", "6", "7", "8", "9">>[i + 1]
\* the stem of the i-th file name in sorted order: NM-001, NM-002, ...
Stem(i) == NM("0", "0", Digit(i))

\* What yaml.safe_load makes of a file: nothing (an empty document), a value
\* that is no mapping, a mapping (with the mission_id it declares, if any), or
\* a YAMLError
Doc(kind, mission_id) == [kind |-> kind, mission_id |-> mission_id]
Docs ==
    { Doc("empty", Absent), Doc("nonmapping", Absent), Doc("malformed", Absent) }
    \cup { Doc("mapping", id) :
             id \in { Absent, None, PyStr(<<>>), PyStr(NM("0", "1", "1")) } }
NoFile == Doc("nofile", Absent)

\* yaml.safe_load(text) or {}, then {} unless a dict: the fields of the mapping
MissionData(doc) ==
    IF doc.kind = "mapping"
    THEN Mission(PyStr(READY), Risk(PyStr(L1)), Absent, doc.mission_id, "a")
    ELSE Mission(Absent, RiskAbsent, Absent, Absent, "")

\* dict.setdefault(key, value): sets the key only when the dict lacks it
SetDefault(v, value) == IF v.t = "absent" THEN value ELSE v

\* lines 19-23 for the file of stem i
LoadedMission(i) ==
    LET data == MissionData(missionFiles[i])
    IN  [data EXCEPT !.mission_id = SetDefault(data.mission_id, PyStr(Stem(i))),
                     !.source = PyStr(Stem(i))]

LoadIdle ==
    /\ missionFiles = <<>>
    /\ loaded = <<>>
    /\ loadIdx = 0
    /\ loadPc = "idle"

LoadInit ==
    /\ missionFiles \in [1..MaxFiles -> Docs \cup {NoFile}]
    /\ loaded = <<>>
    /\ loadIdx = 1
    /\ loadPc = "loop"

\* sorted(missions_dir.glob("NM-*.yaml")) visits the stems in order; a stem
\* without a file is not in the glob
LoadSkipNoFile ==
    /\ loadPc = "loop" /\ loadIdx <= MaxFiles
    /\ missionFiles[loadIdx].kind = "nofile"
    /\ loadIdx' = loadIdx + 1
    /\ UNCHANGED <<missionFiles, loaded, loadPc>>

\* one iteration of the loop, lines 19-24
LoadFile ==
    /\ loadPc = "loop" /\ loadIdx <= MaxFiles
    /\ missionFiles[loadIdx].kind \notin {"nofile", "malformed"}
    /\ loaded' = Append(loaded, LoadedMission(loadIdx))
    /\ loadIdx' = loadIdx + 1
    /\ UNCHANGED <<missionFiles, loadPc>>

\* yaml.safe_load raises YAMLError, which load_missions does not catch
LoadRaise ==
    /\ loadPc = "loop" /\ loadIdx <= MaxFiles
    /\ missionFiles[loadIdx].kind = "malformed"
    /\ loadPc' = "raised"
    /\ UNCHANGED <<missionFiles, loaded, loadIdx>>

\* return missions
LoadReturn ==
    /\ loadPc = "loop" /\ loadIdx = MaxFiles + 1
    /\ loadPc' = "done"
    /\ UNCHANGED <<missionFiles, loaded, loadIdx>>

----------------------------------------------------------------------------
(* branch_name_for_mission *)

RECURSIVE Decimal(_)
Decimal(n) == IF n < 10 THEN <<Digit(n)>> ELSE Decimal(n \div 10) \o <<Digit(n % 10)>>

\* what an f-string writes for a value
Format(v) ==
    CASE v.t = "str" -> v.s
      [] v.t = "none" -> <<"N", "o", "n", "e">>
      [] v.t = "int" -> Decimal(v.n)
      [] v.t = "bool" -> IF v.n = 1 THEN <<"T", "r", "u", "e">>
                         ELSE <<"F", "a", "l", "s", "e">>

MISSION == <<"m", "i", "s", "s", "i", "o", "n">>
CODEX == <<"c", "o", "d", "e", "x">>
GROK == <<"g", "r", "o", "k">>
\* two consecutive days as strftime("%Y%m%d") writes them
Day1 == <<"2", "0", "2", "6", "1", "1", "0", "5">>
Day2 == <<"2", "0", "2", "6", "1", "1", "0", "6">>

\* mission.get("mission_id", "mission")
BranchId(mission) == GetDefault(mission.mission_id, PyStr(MISSION))

\* date or datetime.utcnow().strftime("%Y%m%d"), today being the clock's day
BranchDay(date, today) == IF Truthy(date) THEN date ELSE PyStr(today)

\* f"night/{day}/{mission_id}-{agent}"
branch_name_for_mission(mission, agent, date, today) ==
    <<"n", "i", "g", "h", "t", "/">> \o Format(BranchDay(date, today)) \o <<"/">>
        \o Format(BranchId(mission)) \o <<"-">> \o agent

\* a mission with the given mission_id (and nothing else the function reads)
MissionWithId(id) == Mission(PyStr(READY), Risk(PyStr(L1)), Absent, id, "a")

\* the mission_id values tried: none, null, empty, and identifiers
BranchIds ==
    { Absent, None, PyStr(<<>>), PyStr(MISSION), PyStr(<<"N", "o", "n", "e">>),
      PyStr(NM("0", "1", "1")), PyStr(NM("0", "2", "0")) }

BnIdle ==
    /\ bnMissionA = MissionWithId(Absent)
    /\ bnMissionB = MissionWithId(Absent)
    /\ bnAgent = CODEX
    /\ bnDate = None
    /\ bnNameA = <<>>
    /\ bnNameB = <<>>
    /\ bnPc = "idle"

BnInit ==
    /\ bnMissionA \in { MissionWithId(id) : id \in BranchIds }
    /\ bnMissionB \in { MissionWithId(id) : id \in BranchIds }
    /\ bnAgent \in {CODEX, GROK}
    /\ bnDate \in {None, PyStr(<<>>), PyStr(Day1), PyStr(Day2)}
    /\ bnNameA = <<>>
    /\ bnNameB = <<>>
    /\ bnPc = "start"

\* branch_name_for_mission(A, agent, date), the first call or a repeated one
BranchNameA ==
    /\ bnPc \in {"start", "done"}
    /\ bnNameA' = branch_name_for_mission(bnMissionA, bnAgent, bnDate, utcDay)
    /\ bnPc' = IF bnPc = "start" THEN "calledA" ELSE bnPc
    /\ UNCHANGED <<bnMissionA, bnMissionB, bnAgent, bnDate, bnNameB>>

\* branch_name_for_mission(B, agent, date)
BranchNameB ==
    /\ bnPc = "calledA"
    /\ bnNameB' = branch_name_for_mission(bnMissionB, bnAgent, bnDate, utcDay)
    /\ bnPc' = "done"
    /\ UNCHANGED <<bnMissionA, bnMissionB, bnAgent, bnDate, bnNameA>>

\* the UTC date changes (datetime.utcnow() is read at each call)
Midnight ==
    /\ utcDay = Day1
    /\ utcDay' = Day2

----------------------------------------------------------------------------
(* sync_with_remote_sandbox, over a git working copy and its origin.       *)
(* localBranches are the branches of the working copy, remoteBranches the  *)
(* branches origin has, trackingRefs the origin/<branch> refs the working  *)
(* copy holds, head the branch checked out, headCommit whether the files   *)
(* are those of the local branch or of origin's.  gitFault names the git   *)
(* command that fails for a reason of its own (network, index lock, local  *)
(* changes in the way), if any.                                            *)

MAIN == <<"m", "a", "i", "n">>
SandboxNames ==
    { branch_name_for_mission(MissionWithId(PyStr(id)), CODEX, None, Day1) :
        id \in {NM("0", "1", "1"), NM("0", "2", "0")} }

SyncReturn(ok, detail) == [ok |-> ok, detail |-> detail]
NoReturn == [ok |-> FALSE, detail |-> "(not returned)"]

SyncIdle ==
    /\ localBranches = {}
    /\ remoteBranches = {}
    /\ trackingRefs = {}
    /\ head = MAIN
    /\ headCommit = "local"
    /\ gitFault = "none"
    /\ syncBranch = MAIN
    /\ syncPc = "idle"
    /\ missing_remote = FALSE
    /\ syncResult = NoReturn
    /\ resetRan = FALSE

SyncInit ==
    /\ localBranches \in SUBSET SandboxNames
    /\ remoteBranches \in SUBSET SandboxNames
    /\ trackingRefs \in SUBSET SandboxNames
    /\ head = MAIN
    /\ headCommit = "local"
    /\ gitFault \in {"none", "fetch", "checkout", "reset"}
    /\ syncBranch \in SandboxNames
    /\ syncPc = "fetch"
    /\ missing_remote = FALSE
    /\ syncResult = NoReturn
    /\ resetRan = FALSE

\* git checkout <branch> succeeds on a local branch, or makes one from
\* origin/<branch> when the working copy holds that ref
CheckoutSucceeds(branch) ==
    /\ gitFault # "checkout"
    /\ branch \in localBranches \cup trackingRefs

\* lines 27-34: git fetch origin <branch>.  A failure whose stderr says the
\* remote ref was not found sets missing_remote; any other failure returns.
\* A fetch that succeeds may or may not leave origin/<branch> behind.
SyncFetch ==
    /\ syncPc = "fetch"
    /\ \/ /\ gitFault = "fetch"
          /\ syncResult' = SyncReturn(FALSE, "git fetch failed")
          /\ syncPc' = "done"
          /\ UNCHANGED <<missing_remote, trackingRefs>>
       \/ /\ gitFault # "fetch"
          /\ syncBranch \notin remoteBranches
          /\ missing_remote' = TRUE
          /\ syncPc' = "checkout"
          /\ UNCHANGED <<syncResult, trackingRefs>>
       \/ /\ gitFault # "fetch"
          /\ syncBranch \in remoteBranches
          /\ trackingRefs' \in {trackingRefs, trackingRefs \cup {syncBranch}}
          /\ syncPc' = "checkout"
          /\ UNCHANGED <<syncResult, missing_remote>>
    /\ UNCHANGED <<localBranches, remoteBranches, head, headCommit, gitFault,
                   syncBranch, resetRan>>

\* lines 36-41: git checkout <branch>, then the return for a missing remote
SyncCheckout ==
    /\ syncPc = "checkout"
    /\ IF CheckoutSucceeds(syncBranch)
       THEN /\ localBranches' = localBranches \cup {syncBranch}
            /\ head' = syncBranch
            /\ IF missing_remote
               THEN /\ syncResult' =
                         SyncReturn(TRUE, "no remote branch; using local sandbox")
                    /\ syncPc' = "done"
               ELSE /\ syncPc' = "reset"
                    /\ UNCHANGED syncResult
       ELSE /\ syncResult' = SyncReturn(FALSE, "git checkout failed")
            /\ syncPc' = "done"
            /\ UNCHANGED <<localBranches, head>>
    /\ UNCHANGED <<remoteBranches, trackingRefs, headCommit, gitFault, syncBranch,
                   missing_remote, resetRan>>

\* lines 43-55: git reset --hard origin/<branch>
SyncReset ==
    /\ syncPc = "reset"
    /\ resetRan' = TRUE
    /\ syncPc' = "done"
    /\ IF syncBranch \notin trackingRefs
       THEN /\ syncResult' =
                 SyncReturn(TRUE, "remote branch missing after fetch; using local only")
            /\ UNCHANGED headCommit
       ELSE IF gitFault = "reset"
       THEN /\ syncResult' = SyncReturn(FALSE, "git reset failed")
            /\ UNCHANGED headCommit
       ELSE /\ syncResult' = SyncReturn(TRUE, "synced with remote sandbox")
            /\ headCommit' = "remote"
    /\ UNCHANGED <<localBranches, remoteBranches, trackingRefs, head, gitFault,
                   syncBranch, missing_remote>>

----------------------------------------------------------------------------
(* run_mission_executor *)

\* most entries of a mission's repos list
MaxRepos == 3

\* the keys of EXECUTORS
ExecutorIds ==
    { NM("0", "1", "0"), NM("0", "1", "1"), NM("0", "2", "0"), NM("9", "0", "0"),
      NM("9", "0", "1"), NM("9", "0", "2"), NM("9", "0", "3"), NM("9", "0", "4"),
      NM("9", "1", "0"), NM("9", "2", "0"), NM("9", "3", "0") }

\* a lookup that finds an executor for every identifier
HasExecutorAlways(mission_id) == mission_id.t = "str"

\* get_executor(mission_id) is not None
HasExecutor(mission_id) == mission_id.t = "str" /\ mission_id.s \in ExecutorIds

\* An entry of repos: a mapping (t = "dict") with the name it has, or a scalar
Entry(t, name) == [t |-> t, name |-> name]
LS_SCHEDULER == <<"l", "s", "-", "s", "c", "h", "e", "d", "u", "l", "e", "r">>
LS_BACKEND == <<"l", "s", "-", "b", "a", "c", "k", "e", "n", "d">>
EntryPool ==
    { Entry("str", Absent), Entry("dict", Absent), Entry("dict", PyStr(<<>>)),
      Entry("dict", PyStr(LS_SCHEDULER)), Entry("dict", PyStr(LS_BACKEND)),
      Entry("dict", PyInt(5)) }

\* the missions dispatched: without an id, with a registered one, with one
\* that has no executor; repos absent, null, a scalar, or a list
DispatchMissions ==
    { [MissionWithId(id) EXCEPT !.repos = repos] :
        id \in { Absent, PyStr(NM("0", "1", "1")), PyStr(NM("0", "2", "0")),
                 PyStr(NM("9", "9", "9")) },
        repos \in {ReposAbsent, ReposNone, ReposScalar}
                  \cup { ReposList(items) : items \in SeqsUpTo(EntryPool, MaxRepos) } }

\* mission.get("repos") or []
ReposOrEmpty(mission) ==
    IF mission.repos.t \in {"absent", "none"} \/ mission.repos = ReposList(<<>>)
    THEN ReposList(<<>>)
    ELSE mission.repos

\* the test of the entry without the test of its name
ValidEntryAnyDict(entry) == entry.t = "dict"

\* lines 505-509: the entry is a dict and its name is truthy
ValidEntry(entry) == entry.t = "dict" /\ Truthy(Get(entry.name))

\* the dicts run_mission_executor and the executors return
Skipped(mission_id, reason) ==
    [kind |-> "skipped", mission |-> mission_id, reason |-> reason,
     repo |-> <<>>, branch |-> <<>>, success |-> FALSE]
ExecutorResult(mission_id, repo, branch, success) ==
    [kind |-> "result", mission |-> mission_id, reason |-> "",
     repo |-> repo, branch |-> branch, success |-> success]
NoResult ==
    [kind |-> "none", mission |-> None, reason |-> "",
     repo |-> <<>>, branch |-> <<>>, success |-> FALSE]

\* the arguments of one call executor(repo_path, mission, branch)
Call(repo, mission, branch) == [repo |-> repo, mission |-> mission, branch |-> branch]

\* the last result returned for the first
DispatchResultLast(mission_id, results) ==
    IF results = <<>> THEN Skipped(mission_id, "no valid repos")
    ELSE results[Len(results)]

\* lines 514-516
DispatchResult(mission_id, results) ==
    IF results = <<>> THEN Skipped(mission_id, "no valid repos") ELSE results[1]

DIdle ==
    /\ dMission = MissionWithId(Absent)
    /\ dPc = "idle"
    /\ dIndex = 0
    /\ dBranch = <<>>
    /\ dCalls = <<>>
    /\ dResults = <<>>
    /\ dReturn = NoResult
    /\ dBranchComputed = FALSE

DInit ==
    /\ dMission \in DispatchMissions
    /\ dPc = "start"
    /\ dIndex = 0
    /\ dBranch = <<>>
    /\ dCalls = <<>>
    /\ dResults = <<>>
    /\ dReturn = NoResult
    /\ dBranchComputed = FALSE

\* lines 493-503: the lookup, the repos check, the branch name
DispatchEnter ==
    /\ dPc = "start"
    /\ LET mission_id == Get(dMission.mission_id)
       IN  IF ~HasExecutor(mission_id)
           THEN /\ dReturn' = Skipped(mission_id, "no executor")
                /\ dPc' = "returned"
                /\ UNCHANGED <<dIndex, dBranch, dBranchComputed>>
           ELSE IF ReposOrEmpty(dMission).t # "list"
           THEN /\ dReturn' = Skipped(mission_id, "invalid repos")
                /\ dPc' = "returned"
                /\ UNCHANGED <<dIndex, dBranch, dBranchComputed>>
           ELSE /\ dBranch' = branch_name_for_mission(dMission, CODEX, None, utcDay)
                /\ dBranchComputed' = TRUE
                /\ dIndex' = 1
                /\ dPc' = "loop"
                /\ UNCHANGED dReturn
    /\ UNCHANGED <<dMission, dCalls, dResults>>

\* lines 505-509: an entry that is no dict, or has no name, is passed over
DispatchSkipEntry ==
    /\ dPc = "loop"
    /\ dIndex <= Len(ReposOrEmpty(dMission).items)
    /\ ~ValidEntry(ReposOrEmpty(dMission).items[dIndex])
    /\ dIndex' = dIndex + 1
    /\ UNCHANGED <<dMission, dPc, dBranch, dCalls, dResults, dReturn, dBranchComputed>>

\* line 510: repos_root / repo_name raises TypeError for a name that is no str
DispatchPathError ==
    /\ dPc = "loop"
    /\ dIndex <= Len(ReposOrEmpty(dMission).items)
    /\ ValidEntry(ReposOrEmpty(dMission).items[dIndex])
    /\ ReposOrEmpty(dMission).items[dIndex].name.t # "str"
    /\ dPc' = "raised"
    /\ UNCHANGED <<dMission, dIndex, dBranch, dCalls, dResults, dReturn, dBranchComputed>>

\* lines 510-512: the executor is called; it returns a result, of success or
\* of failure, or raises, and an exception leaves run_mission_executor
DispatchInvoke ==
    /\ dPc = "loop"
    /\ dIndex <= Len(ReposOrEmpty(dMission).items)
    /\ ValidEntry(ReposOrEmpty(dMission).items[dIndex])
    /\ ReposOrEmpty(dMission).items[dIndex].name.t = "str"
    /\ LET repo == ReposOrEmpty(dMission).items[dIndex].name.s
       IN  /\ dCalls' = Append(dCalls, Call(repo, dMission, dBranch))
           /\ \E outcome \in {"success", "failure", "raise"} :
                 IF outcome = "raise"
                 THEN /\ dPc' = "raised"
                      /\ UNCHANGED <<dResults, dIndex>>
                 ELSE /\ dResults' = Append(dResults,
                             ExecutorResult(Get(dMission.mission_id), repo, dBranch,
                                            outcome = "success"))
                      /\ dIndex' = dIndex + 1
                      /\ UNCHANGED dPc
    /\ UNCHANGED <<dMission, dBranch, dReturn, dBranchComputed>>

\* lines 514-516
DispatchReturn ==
    /\ dPc = "loop"
    /\ dIndex > Len(ReposOrEmpty(dMission).items)
    /\ dReturn' = DispatchResult(Get(dMission.mission_id), dResults)
    /\ dPc' = "returned"
    /\ UNCHANGED <<dMission, dIndex, dBranch, dCalls, dResults, dBranchComputed>>

----------------------------------------------------------------------------
(* results.py: get_results_root and write_mission_result.  The results    *)
(* roots are directories that can be created or cannot (preferredOk,      *)
(* fallbackOk); resultFiles gives the lines of mission_results_<run_id>   *)
(* .jsonl under each root, clock the UTC time in ticks.  recCalls keeps   *)
(* the calls that returned, recOutcome how the last call ended.           *)

\* most calls of write_mission_result in one behaviour
MaxWrites == 2
\* last tick of the clock
MaxClock == 2

RunA == <<"2", "0", "2", "6", "1", "1", "0", "5", "T", "0", "1", "0", "0", "0", "0", "Z">>
RunB == <<"2", "0", "2", "6", "1", "1", "0", "5", "T", "0", "2", "0", "0", "0", "0", "Z">>
RunIds == {RunA, RunB}
Roots == {"preferred", "fallback"}

\* lines 11-19: Path.mkdir(parents=True, exist_ok=True) of the preferred
\* root; on OSError the fallback is made outside the try statement, so an
\* OSError of the second mkdir leaves the function
get_results_root(preferred_ok, fallback_ok) ==
    IF preferred_ok THEN "preferred"
    ELSE IF fallback_ok THEN "fallback"
    ELSE "OSError"

\* a mission result dict: what the executor returned (body) and the keys
\* run_id and timestamp it may carry already
ResultDict(body, run_id, timestamp) ==
    [body |-> body, run_id |-> run_id, timestamp |-> timestamp]

\* an enrichment that keeps a run_id the result has
EnrichedKeepingRunId(mission_result, run_id, now) ==
    [mission_result EXCEPT
        !.run_id = IF mission_result.run_id.t = "absent" THEN PyStr(run_id) ELSE @,
        !.timestamp = PyInt(now)]

\* lines 28-30: dict(mission_result) with run_id and timestamp assigned
Enriched(mission_result, run_id, now) ==
    [mission_result EXCEPT !.run_id = PyStr(run_id), !.timestamp = PyInt(now)]

\* lines 31-33: the file opened with "a", one json.dumps line written
AppendLine(lines, enriched) == Append(lines, enriched)

\* the results written in this model
RecResults ==
    { ResultDict(body, run_id, timestamp) :
        body \in { ExecutorResult(PyStr(NM("0", "1", "1")), LS_SCHEDULER, <<>>, TRUE),
                   Skipped(None, "no executor") },
        run_id \in {Absent, PyStr(RunB)},
        timestamp \in {Absent} }
    \cup { ResultDict(Skipped(None, "no executor"), PyStr(RunA), PyInt(0)) }

NoFiles == [f \in Roots \X RunIds |-> <<>>]

RecIdle ==
    /\ preferredOk = TRUE
    /\ fallbackOk = TRUE
    /\ resultFiles = NoFiles
    /\ clock = 0
    /\ recCalls = <<>>
    /\ recOutcome = "none"
    /\ recCount = 0

RecInit ==
    /\ preferredOk \in BOOLEAN
    /\ fallbackOk \in BOOLEAN
    /\ resultFiles = NoFiles
    /\ clock = 0
    /\ recCalls = <<>>
    /\ recOutcome = "none"
    /\ recCount = 0

\* datetime.utcnow() moves on
Tick ==
    /\ clock < MaxClock
    /\ clock' = clock + 1

\* lines 26-33, with get_results_root of line 27
write_mission_result(run_id, mission_result) ==
    LET root == get_results_root(preferredOk, fallbackOk)
    IN  IF root = "OSError"
        THEN /\ recOutcome' = "OSError"
             /\ UNCHANGED <<resultFiles, recCalls>>
        ELSE /\ resultFiles' =
                   [resultFiles EXCEPT ![<<root, run_id>>] =
                       AppendLine(@, Enriched(mission_result, run_id, clock))]
             /\ recCalls' = Append(recCalls,
                   [run_id |-> run_id, mission_result |-> mission_result, at |-> clock])
             /\ recOutcome' = "written"

WriteMissionResult ==
    /\ recCount < MaxWrites
    /\ recCount' = recCount + 1
    /\ \E run_id \in RunIds, mission_result \in RecResults :
          write_mission_result(run_id, mission_result)
    /\ UNCHANGED <<preferredOk, fallbackOk>>

----------------------------------------------------------------------------
(* main.py, the loop of main over the ready missions: each mission goes   *)
(* to run_mission_executor and what is returned to write_mission_result.  *)
(* mReady is ready_missions, mIdx the mission of the iteration, mStatus   *)
(* how far each mission got, mPc the position of main, which begins with  *)
(* the preparation of the sandbox branches (line 37).                     *)

\* most missions in ready_missions
MaxReady == 2

\* the missions of a run: two with an executor and a repository (one of them
\* after an entry that is no dict), one whose executor is not registered, one
\* whose repository name is no str
MainMissions ==
    { [MissionWithId(PyStr(NM("0", "1", "1"))) EXCEPT
          !.repos = ReposList(<<Entry("dict", PyStr(LS_SCHEDULER))>>)],
      [MissionWithId(PyStr(NM("0", "2", "0"))) EXCEPT
          !.repos = ReposList(<<Entry("str", Absent), Entry("dict", PyStr(LS_BACKEND))>>)],
      [MissionWithId(PyStr(NM("9", "9", "9"))) EXCEPT
          !.repos = ReposList(<<Entry("dict", PyStr(LS_BACKEND))>>)],
      [MissionWithId(PyStr(NM("9", "0", "0"))) EXCEPT
          !.repos = ReposList(<<Entry("dict", PyInt(5))>>)] }

\* line 31: what select_ready_missions returns for the missions loaded
ReadyLists ==
    { select_ready_missions(ms, Len(ms)) : ms \in SeqsUpTo(MainMissions, MaxReady) }

MainIdle ==
    /\ mReady = <<>>
    /\ mIdx = 0
    /\ mStatus = <<>>
    /\ mPc = "idle"

MainInit ==
    /\ mReady \in ReadyLists
    /\ mIdx = 1
    /\ mStatus = [i \in 1..Len(mReady) |-> "pending"]
    /\ mPc = "prepare"

\* lines 40-41: run_mission_executor is entered with the mission of the iteration
MainDispatch ==
    /\ mPc = "loop"
    /\ mIdx <= Len(mReady)
    /\ dMission' = mReady[mIdx]
    /\ dPc' = "start"
    /\ dIndex' = 0
    /\ dBranch' = <<>>
    /\ dCalls' = <<>>
    /\ dResults' = <<>>
    /\ dReturn' = NoResult
    /\ dBranchComputed' = FALSE
    /\ mStatus' = [mStatus EXCEPT ![mIdx] = "dispatched"]
    /\ mPc' = "executor"
    /\ UNCHANGED <<mReady, mIdx>>

\* line 41: an exception of run_mission_executor is not caught; it leaves
\* the loop and main
MainExecutorRaised ==
    /\ mPc = "executor"
    /\ dPc = "raised"
    /\ mStatus' = [mStatus EXCEPT ![mIdx] = "raised"]
    /\ mPc' = "raised"
    /\ UNCHANGED <<mReady, mIdx>>

\* lines 42-43: the result is printed and written; an OSError of
\* write_mission_result is not caught either
MainRecord ==
    /\ mPc = "executor"
    /\ dPc = "returned"
    /\ write_mission_result(RunA, ResultDict(dReturn, Absent, Absent))
    /\ recCount' = recCount + 1
    /\ IF recOutcome' = "OSError"
       THEN /\ mStatus' = [mStatus EXCEPT ![mIdx] = "unrecorded"]
            /\ mPc' = "raised"
            /\ UNCHANGED mIdx
       ELSE /\ mStatus' = [mStatus EXCEPT ![mIdx] = "recorded"]
            /\ mPc' = "loop"
            /\ mIdx' = mIdx + 1
    /\ UNCHANGED <<mReady, preferredOk, fallbackOk>>

\* line 44: the loop is over
MainDone ==
    /\ mPc = "loop"
    /\ mIdx > Len(mReady)
    /\ mPc' = "done"
    /\ UNCHANGED <<mReady, mIdx, mStatus>>

----------------------------------------------------------------------------
(* cycle.py: the text of a log and parse_mission_results.  A log is a     *)
(* sequence of lines.  A line is what stands before its first word (lead: *)
(* whitespace or nothing), how it goes on (head: the marker               *)
(* MISSION_RESULT_JSON:, a worker record, or other text), what follows    *)
(* the head (payload) and how the line ends (eol).  A payload is nothing, *)
(* a JSON object, a JSON value that is no object, or text that is no      *)
(* JSON; v tells two payloads of a kind apart.                            *)

\* most lines of the file handed to parse_mission_results
MaxLines == 3

Payload(k, v) == [k |-> k, v |-> v]
Line(lead, first, payload, eol) ==
    [lead |-> lead, head |-> first, payload |-> payload, eol |-> eol]

\* line 29
MISSION_RESULT_PREFIX == "marker"

\* str.strip(): the whitespace at both ends goes, the line ending with it
Strip(raw) == [raw EXCEPT !.lead = FALSE, !.eol = "none"]

\* line.startswith(MISSION_RESULT_PREFIX)
StartsWith(line, prefix) == ~line.lead /\ line.head = prefix

\* a parser that takes any text for JSON
JsonValidAny(payload) == TRUE

\* json.loads: the value of a JSON text; JSONDecodeError for other text
JsonValid(payload) == payload.k \in {"object", "scalar"}
JsonLoads(payload) ==
    [t |-> IF payload.k = "object" THEN "dict" ELSE "int", id |-> payload.v]

\* json.dumps of a value
JsonDumps(value) ==
    Payload(IF value.t = "dict" THEN "object" ELSE "scalar", value.id)

\* lines 285-294 for one line read: what is appended to results
LineResults(raw) ==
    LET line == Strip(raw)
    IN  IF ~StartsWith(line, MISSION_RESULT_PREFIX) THEN <<>>
        ELSE IF line.payload.k = "empty" THEN <<>>
        ELSE IF JsonValid(line.payload) THEN <<JsonLoads(line.payload)>>
        ELSE <<>>

\* lines 291-294: the warning printed for a payload that is no JSON
LineWarnings(raw) ==
    LET line == Strip(raw)
    IN  IF StartsWith(line, MISSION_RESULT_PREFIX) /\ line.payload.k = "invalid"
        THEN <<line.payload>>
        ELSE <<>>

\* a file: whether it exists, and its lines
File(lines) == [exists |-> TRUE, lines |-> lines]
NoSuchFile == [exists |-> FALSE, lines |-> <<>>]

\* lines 278-294 as a function of the file
RECURSIVE ParseLines(_)
ParseLines(lines) ==
    IF lines = <<>> THEN <<>>
    ELSE LineResults(Head(lines)) \o ParseLines(Tail(lines))
parse_mission_results(file) ==
    IF ~file.exists THEN <<>> ELSE ParseLines(file.lines)

\* the lines tried: text, text that mentions the marker further on, marker
\* lines with each kind of payload, an indented marker line, a worker record
ParseLinePool ==
    { Line(FALSE, "text", Payload("empty", 0), "LF"),
      Line(FALSE, "text", Payload("object", 1), "LF"),
      Line(FALSE, "marker", Payload("object", 1), "LF"),
      Line(FALSE, "marker", Payload("object", 2), "CRLF"),
      Line(FALSE, "marker", Payload("scalar", 3), "LF"),
      Line(FALSE, "marker", Payload("invalid", 4), "LF"),
      Line(FALSE, "marker", Payload("empty", 0), "LF"),
      Line(TRUE, "marker", Payload("object", 1), "LF"),
      Line(FALSE, "worker", Payload("object", 5), "LF") }

ParseIdle ==
    /\ parseFile = NoSuchFile
    /\ parseIdx = 0
    /\ parseResults = <<>>
    /\ parseWarnings = <<>>
    /\ parsePc = "idle"

ParseInit ==
    /\ parseFile \in {NoSuchFile} \cup { File(ls) : ls \in SeqsUpTo(ParseLinePool, MaxLines) }
    /\ parseIdx = 0
    /\ parseResults = <<>>
    /\ parseWarnings = <<>>
    /\ parsePc = "start"

\* lines 279-281: no file, an empty list
ParseNoFile ==
    /\ parsePc = "start"
    /\ ~parseFile.exists
    /\ parsePc' = "returned"
    /\ UNCHANGED <<parseFile, parseIdx, parseResults, parseWarnings>>

\* line 283: the file is opened
ParseOpen ==
    /\ parsePc = "start"
    /\ parseFile.exists
    /\ parseIdx' = 1
    /\ parsePc' = "lines"
    /\ UNCHANGED <<parseFile, parseResults, parseWarnings>>

\* lines 284-294: one turn of the loop
ParseLine ==
    /\ parsePc = "lines"
    /\ parseIdx <= Len(parseFile.lines)
    /\ parseResults' = parseResults \o LineResults(parseFile.lines[parseIdx])
    /\ parseWarnings' = parseWarnings \o LineWarnings(parseFile.lines[parseIdx])
    /\ parseIdx' = parseIdx + 1
    /\ UNCHANGED <<parseFile, parsePc>>

\* line 294
ParseReturn ==
    /\ parsePc = "lines"
    /\ parseIdx > Len(parseFile.lines)
    /\ parsePc' = "returned"
    /\ UNCHANGED <<parseFile, parseIdx, parseResults, parseWarnings>>

----------------------------------------------------------------------------
(* cycle.py: process_cycle_artifacts on one run directory and execution   *)
(* name.  runDir holds the files of the directory; pLogsArg and pExecArg  *)
(* are the arguments logs_text and execution; logs_text, execution,       *)
(* mission_results and worker_results_path are the locals of these names; *)
(* pEvents lists what the invocation has done so far, in order.  A second *)
(* invocation on the same directory may follow the first: pInvocation     *)
(* tells which one runs, pBefore holds the files the first one left,      *)
(* pUnchanged whether the second one is given the raw log of the first.   *)

\* most lines of a raw log handed to process_cycle_artifacts
MaxLogLines == 2

\* Path.write_text: the characters as they are ("\n" is os.linesep)
write_text(text) == File(text)

\* Path.read_text: universal newlines, "\r\n" is read as "\n"
read_text(file) == [i \in 1..Len(file.lines) |-> [file.lines[i] EXCEPT !.eol = "LF"]]

\* lines 297-300: the file opened with "w", one json.dumps line per result
write_results_jsonl(results) ==
    File([i \in 1..Len(results) |-> JsonDumps(results[i])])

\* a test that looks at the existence of the file only
NothingToReportIfMissing(results_file) == ~results_file.exists

\* lines 304-306: results_path missing or of size 0
NothingToReport(results_file) == ~results_file.exists \/ results_file.lines = <<>>

\* worker_results.extract_worker_result_records_from_lines: the records of
\* the worker lines, in order
RECURSIVE extract_worker_result_records_from_lines(_)
extract_worker_result_records_from_lines(lines) ==
    IF lines = <<>> THEN <<>>
    ELSE (IF Head(lines).head = "worker" /\ Head(lines).payload.k = "object"
          THEN <<JsonLoads(Head(lines).payload)>> ELSE <<>>)
         \o extract_worker_result_records_from_lines(Tail(lines))

\* worker_results.write_worker_results_jsonl: the table written anew
write_worker_results_jsonl(records) ==
    File([i \in 1..Len(records) |-> JsonDumps(records[i])])

\* str.splitlines(): the lines without their endings
splitlines(text) == [i \in 1..Len(text) |-> [text[i] EXCEPT !.eol = "none"]]

\* a pipeline that writes the worker table whatever was found
WorkerFileWrittenAlways(worker_records) == TRUE

\* line 386: worker_records is truthy
WorkerFileWritten(worker_records) == worker_records # <<>>

\* memory_probe_summary.py lines 54-74: an NM-910 record with an answer is
\* among the worker tables of the directory
PROBE == 5
HasProbeAnswer(worker_file) ==
    worker_file.exists /\ \E i \in 1..Len(worker_file.lines) : worker_file.lines[i].v = PROBE

\* line 412: the status of the metadata, "unknown" without metadata
StatusOf(exec) == IF exec \in {"none", "empty"} THEN "unknown" ELSE exec

\* the raw logs tried
LogLinePool ==
    { Line(FALSE, "text", Payload("empty", 0), "LF"),
      Line(FALSE, "text", Payload("empty", 0), "CRLF"),
      Line(FALSE, "marker", Payload("object", 1), "LF"),
      Line(FALSE, "marker", Payload("invalid", 4), "LF"),
      Line(FALSE, "worker", Payload("object", PROBE), "LF"),
      Line(FALSE, "worker", Payload("object", 6), "LF") }
LogTexts == SeqsUpTo(LogLinePool, MaxLogLines)

\* logs_text: None or a str
NoLogs == [given |-> FALSE, text |-> <<>>]
Logs(text) == [given |-> TRUE, text |-> text]

\* execution: None, an empty dict, or the metadata of a finished execution
ExecArgs == {"none", "empty", "Succeeded"}

Artifacts ==
    {"logs", "exec", "mission_results", "worker_results", "night_report",
     "run_summary", "worker_summary", "memory_probe"}
EmptyDir == [a \in Artifacts |-> NoSuchFile]

NoArtifactSet ==
    [returned |-> FALSE, status |-> "", mission_results |-> <<>>,
     worker_results_path |-> FALSE]

PipeIdle ==
    /\ runDir = EmptyDir
    /\ pLogsArg = NoLogs
    /\ pExecArg = "none"
    /\ pPc = "idle"
    /\ logs_text = <<>>
    /\ execution = "none"
    /\ mission_results = <<>>
    /\ worker_results_path = FALSE
    /\ pEvents = <<>>
    /\ pReturn = NoArtifactSet
    /\ pInvocation = "none"
    /\ pBefore = EmptyDir
    /\ pUnchanged = FALSE

PipeInit ==
    /\ runDir = EmptyDir
    /\ pLogsArg \in {NoLogs} \cup { Logs(t) : t \in LogTexts }
    /\ pExecArg \in ExecArgs
    /\ pPc = "logs"
    /\ logs_text = <<>>
    /\ execution = "none"
    /\ mission_results = <<>>
    /\ worker_results_path = FALSE
    /\ pEvents = <<>>
    /\ pReturn = NoArtifactSet
    /\ pInvocation = "first"
    /\ pBefore = EmptyDir
    /\ pUnchanged = FALSE

\* lines 359-364: the log given, or the one on disk, or "", is written
PipeLogs ==
    /\ pPc = "logs"
    /\ LET text == IF pLogsArg.given THEN pLogsArg.text
                   ELSE IF runDir.logs.exists THEN read_text(runDir.logs)
                   ELSE <<>>
       IN  /\ logs_text' = text
           /\ runDir' = [runDir EXCEPT !.logs = write_text(text)]
    /\ pEvents' = Append(pEvents, "write logs")
    /\ pPc' = "metadata"
    /\ UNCHANGED <<pLogsArg, pExecArg, execution, mission_results, worker_results_path,
                   pReturn, pInvocation, pBefore, pUnchanged>>

\* lines 366-377: metadata that is truthy is written; without it the file
\* on disk is read; without a file execution is {} and nothing is written
PipeMetadata ==
    /\ pPc = "metadata"
    /\ IF pExecArg \notin {"none", "empty"}
       THEN /\ execution' = pExecArg
            /\ runDir' = [runDir EXCEPT !.exec = File(<<pExecArg>>)]
            /\ pEvents' = Append(pEvents, "write exec")
       ELSE IF runDir.exec.exists
       THEN /\ execution' = runDir.exec.lines[1]
            /\ UNCHANGED <<runDir, pEvents>>
       ELSE /\ execution' = "empty"
            /\ UNCHANGED <<runDir, pEvents>>
    /\ pPc' = "mission_results"
    /\ UNCHANGED <<pLogsArg, pExecArg, logs_text, mission_results, worker_results_path,
                   pReturn, pInvocation, pBefore, pUnchanged>>

\* lines 379-382: the results are parsed from the log file and written
PipeMissionResults ==
    /\ pPc = "mission_results"
    /\ mission_results' = parse_mission_results(runDir.logs)
    /\ runDir' = [runDir EXCEPT !.mission_results = write_results_jsonl(mission_results')]
    /\ pEvents' = pEvents \o <<"read logs", "write mission_results">>
    /\ pPc' = "worker_results"
    /\ UNCHANGED <<pLogsArg, pExecArg, logs_text, execution, worker_results_path,
                   pReturn, pInvocation, pBefore, pUnchanged>>

\* lines 384-391: the worker records of logs_text; a table is written when
\* there are some, and the path is None when there are none and no file
PipeWorkerResults ==
    /\ pPc = "worker_results"
    /\ LET worker_records == extract_worker_result_records_from_lines(splitlines(logs_text))
       IN  IF WorkerFileWritten(worker_records)
           THEN /\ runDir' = [runDir EXCEPT
                                 !.worker_results = write_worker_results_jsonl(worker_records)]
                /\ pEvents' = Append(pEvents, "write worker_results")
                /\ worker_results_path' = TRUE
           ELSE /\ worker_results_path' = runDir.worker_results.exists
                /\ UNCHANGED <<runDir, pEvents>>
    /\ pPc' = "report"
    /\ UNCHANGED <<pLogsArg, pExecArg, logs_text, execution, mission_results,
                   pReturn, pInvocation, pBefore, pUnchanged>>

\* lines 393-394 and 303-306: no report for a table that is missing or empty
PipeReportSkipped ==
    /\ pPc = "report"
    /\ NothingToReport(runDir.mission_results)
    /\ pPc' = "summaries"
    /\ UNCHANGED <<runDir, pLogsArg, pExecArg, logs_text, execution, mission_results,
                   worker_results_path, pEvents, pReturn, pInvocation, pBefore, pUnchanged>>

\* lines 307-316 and 89-105: the night_report module is run; when it exits
\* with 0 the report is on disk, when it exits with another code
\* run_subprocess raises SystemExit with that code
PipeReport ==
    /\ pPc = "report"
    /\ ~NothingToReport(runDir.mission_results)
    /\ \E returncode \in {0, 1} :
          IF returncode = 0
          THEN /\ runDir' = [runDir EXCEPT !.night_report = File(<<>>)]
               /\ pEvents' = pEvents \o <<"run night_report", "write night_report">>
               /\ pPc' = "summaries"
          ELSE /\ pEvents' = Append(pEvents, "run night_report")
               /\ pPc' = "SystemExit"
               /\ UNCHANGED runDir
    /\ UNCHANGED <<pLogsArg, pExecArg, logs_text, execution, mission_results,
                   worker_results_path, pReturn, pInvocation, pBefore, pUnchanged>>

\* lines 395-397: the run summary, the worker summary, the probe summary
PipeSummaries ==
    /\ pPc = "summaries"
    /\ runDir' = [runDir EXCEPT
                     !.run_summary = File(<<>>),
                     !.worker_summary = File(<<>>),
                     !.memory_probe = IF HasProbeAnswer(runDir.worker_results)
                                      THEN File(<<>>) ELSE @]
    /\ pEvents' = pEvents \o <<"write run_summary", "write worker_summary">>
                     \o (IF HasProbeAnswer(runDir.worker_results)
                         THEN <<"write memory_probe">> ELSE <<>>)
    /\ pPc' = "ingest"
    /\ UNCHANGED <<pLogsArg, pExecArg, logs_text, execution, mission_results,
                   worker_results_path, pReturn, pInvocation, pBefore, pUnchanged>>

\* lines 409-411: the run directory is handed to ingest_execution
PipeIngest ==
    /\ pPc = "ingest"
    /\ pEvents' = Append(pEvents, "ingest")
    /\ pPc' = "return"
    /\ UNCHANGED <<runDir, pLogsArg, pExecArg, logs_text, execution, mission_results,
                   worker_results_path, pReturn, pInvocation, pBefore, pUnchanged>>

\* lines 412-427
PipeReturn ==
    /\ pPc = "return"
    /\ pReturn' = [returned |-> TRUE, status |-> StatusOf(execution),
                   mission_results |-> mission_results,
                   worker_results_path |-> worker_results_path]
    /\ pPc' = "returned"
    /\ UNCHANGED <<runDir, pLogsArg, pExecArg, logs_text, execution, mission_results,
                   worker_results_path, pEvents, pInvocation, pBefore, pUnchanged>>

\* process_cycle_artifacts is called again for the same directory and name:
\* without a log, with the raw log of the first call, or with an empty log
PipeAgain ==
    /\ pPc \in {"returned", "SystemExit"}
    /\ pInvocation = "first"
    /\ pInvocation' = "second"
    /\ pBefore' = runDir
    /\ \E arg \in {NoLogs, Logs(logs_text), Logs(<<>>)} :
          /\ pLogsArg' = arg
          /\ pUnchanged' = (pPc = "returned" /\ (arg.given => arg.text = logs_text))
    /\ pExecArg' \in ExecArgs
    /\ pPc' = "logs"
    /\ logs_text' = <<>>
    /\ execution' = "none"
    /\ mission_results' = <<>>
    /\ worker_results_path' = FALSE
    /\ pEvents' = <<>>
    /\ pReturn' = NoArtifactSet
    /\ UNCHANGED runDir

----------------------------------------------------------------------------
(* cycle.py: main in remote mode.  cyCommands lists the external commands *)
(* issued, cyFailed the step whose command exited with a code other than  *)
(* 0, cyExit the exit code of the process, cyRunDir whether the run       *)
(* directory was made, cyLogs and cyExec what the fetches returned.       *)

\* a runner that goes on whatever the command returned
CommandNeverAborts(returncode) == FALSE

\* lines 99-104: run_subprocess raises SystemExit(returncode); line 133:
\* subprocess.run(check=True) raises CalledProcessError
CommandAborts(returncode) == returncode # 0

\* the exit codes of the commands tried
ReturnCodes == {0, 1}

\* stdout of a command run with text=True: line endings arrive as "\n"
FetchedTexts ==
    { t \in LogTexts : \A i \in 1..Len(t) : t[i].eol = "LF" }

CyIdle ==
    /\ cyPc = "idle"
    /\ cyCommands = <<>>
    /\ cyFailed = "none"
    /\ cyExit = 0
    /\ cyRunDir = FALSE
    /\ cyLogs = NoLogs
    /\ cyExec = "none"

CyInit ==
    /\ cyPc = "run_cycle_job"
    /\ cyCommands = <<>>
    /\ cyFailed = "none"
    /\ cyExit = 0
    /\ cyRunDir = FALSE
    /\ cyLogs = NoLogs
    /\ cyExec = "none"

\* what a step does with the exit code of its command: the process ends
\* with a code other than 0, or main goes on to the next step
CommandStep(name, returncode, next) ==
    /\ cyCommands' = Append(cyCommands, name)
    /\ cyFailed' = IF returncode # 0 THEN name ELSE cyFailed
    /\ IF CommandAborts(returncode)
       THEN /\ cyPc' = "exited"
            /\ cyExit' = 1
       ELSE /\ cyPc' = next
            /\ UNCHANGED cyExit

\* line 492 and lines 108-133: run_night is run with check=True
CycleJob ==
    /\ cyPc = "run_cycle_job"
    /\ \E returncode \in ReturnCodes : CommandStep("run_cycle_job", returncode, "list")
    /\ UNCHANGED <<cyRunDir, cyLogs, cyExec>>

\* line 494 and lines 136-176: the executions are listed; an empty list ends the
\* cycle with SystemExit and a message
CycleList ==
    /\ cyPc = "list"
    /\ \E returncode \in ReturnCodes, listed \in {"none", "some"} :
          IF returncode = 0 /\ listed = "none"
          THEN /\ cyCommands' = Append(cyCommands, "list_job_executions")
               /\ cyPc' = "exited"
               /\ cyExit' = 1
               /\ UNCHANGED cyFailed
          ELSE CommandStep("list_job_executions", returncode, "ensure_run_dir")
    /\ UNCHANGED <<cyRunDir, cyLogs, cyExec>>

\* line 496 and lines 229-237: the run directory is made
CycleRunDir ==
    /\ cyPc = "ensure_run_dir"
    /\ cyRunDir' = TRUE
    /\ cyPc' = "fetch_logs"
    /\ UNCHANGED <<cyCommands, cyFailed, cyExit, cyLogs, cyExec>>

\* lines 498-503 and 179-203
CycleFetchLogs ==
    /\ cyPc = "fetch_logs"
    /\ \E returncode \in ReturnCodes, text \in FetchedTexts :
          /\ CommandStep("fetch_logs", returncode, "fetch_execution_metadata")
          /\ cyLogs' = IF returncode = 0 THEN Logs(text) ELSE cyLogs
    /\ UNCHANGED <<cyRunDir, cyExec>>

\* line 504 and lines 206-226: json.loads(stdout or "{}")
CycleFetchMetadata ==
    /\ cyPc = "fetch_execution_metadata"
    /\ \E returncode \in ReturnCodes, metadata \in {"empty", "Succeeded"} :
          /\ CommandStep("fetch_execution_metadata", returncode, "process_cycle_artifacts")
          /\ cyExec' = IF returncode = 0 THEN metadata ELSE cyExec
    /\ UNCHANGED <<cyRunDir, cyLogs>>

\* lines 506-511: process_cycle_artifacts is entered with what was fetched
CycleProcess ==
    /\ cyPc = "process_cycle_artifacts"
    /\ pPc = "idle"
    /\ pLogsArg' = cyLogs
    /\ pExecArg' = cyExec
    /\ pPc' = "logs"
    /\ pInvocation' = "first"
    /\ cyPc' = "in process_cycle_artifacts"
    /\ UNCHANGED <<runDir, logs_text, execution, mission_results, worker_results_path,
                   pEvents, pReturn, pBefore, pUnchanged>>
    /\ UNCHANGED <<cyCommands, cyFailed, cyExit, cyRunDir, cyLogs, cyExec>>

\* line 512: print_cycle_summary, and main returns
CycleSummary ==
    /\ cyPc = "in process_cycle_artifacts"
    /\ pPc = "returned"
    /\ cyPc' = "done"
    /\ UNCHANGED <<cyCommands, cyFailed, cyExit, cyRunDir, cyLogs, cyExec>>

\* SystemExit raised inside process_cycle_artifacts leaves main
CyclePipelineExit ==
    /\ cyPc = "in process_cycle_artifacts"
    /\ pPc = "SystemExit"
    /\ cyPc' = "exited"
    /\ cyExit' = 1
    /\ UNCHANGED <<cyCommands, cyFailed, cyRunDir, cyLogs, cyExec>>

----------------------------------------------------------------------------
(* git_sandbox.py, create_local_sandbox_branches, called by main (line 37) *)
(* before the dispatch loop.  sbRepos are the working copies under         *)
(* repos_root: whether .git exists, which default branch can be checked    *)
(* out, whether `git checkout -B` fails, what is checked out and the       *)
(* commits each sandbox branch holds (none: no such branch).  sbBefore is  *)
(* sbRepos as the run found it, sbIdx the mission of the iteration,        *)
(* sbPrepared the branch name computed for each mission, sbCreated the     *)
(* list returned.                                                          *)

RepoNames == {LS_SCHEDULER, LS_BACKEND}

\* the commit of the default branch and a commit made on a sandbox branch
BaseCommit == "c0"
OwnCommit == "c1"

\* the sandbox branch names of the run's missions on the two days
SandboxBranchNames ==
    { branch_name_for_mission(m, CODEX, None, d) : m \in MainMissions, d \in {Day1, Day2} }

NoBranches == [b \in SandboxBranchNames |-> {}]

\* the sandbox branches an earlier run of the first day left, each with a
\* commit of its own
UsedBranches ==
    [b \in SandboxBranchNames |->
        IF \E m \in MainMissions : b = branch_name_for_mission(m, CODEX, None, Day1)
        THEN {BaseCommit, OwnCommit} ELSE {}]

WorkingCopy(git, default, locked, branches) ==
    [git |-> git, default |-> default, locked |-> locked, checked_out |-> "as found",
     branches |-> branches]

WorkingCopies ==
    { WorkingCopy(FALSE, "none", FALSE, NoBranches),
      WorkingCopy(TRUE, "master", FALSE, UsedBranches),
      WorkingCopy(TRUE, "none", FALSE, UsedBranches),
      WorkingCopy(TRUE, "main", TRUE, UsedBranches) }

\* (repo_path / ".git").exists() for repo_path = repos_root / str(repo_name)
HasGit(world, repo_name) ==
    Format(repo_name) \in RepoNames /\ world[Format(repo_name)].git

\* lines 39-44: main is tried, then master
checkout_default_branch(copy) == copy.default \in {"main", "master"}

\* line 70: git checkout -B <branch> from the default branch: the branch is
\* created, or reset when it exists, at the commit checked out
CheckoutB(copy, branch) ==
    [copy EXCEPT !.checked_out = "sandbox", !.branches[branch] = {BaseCommit}]

\* lines 57-71: one entry of the mission's repos
PrepareEntry(state, repo, branch) ==
    IF repo.t # "dict" THEN state
    ELSE IF ~Truthy(Get(repo.name)) THEN state
    ELSE IF ~HasGit(state.world, repo.name) THEN state
    ELSE LET name == Format(repo.name)
             copy == state.world[name]
         IN IF ~checkout_default_branch(copy) THEN state
            ELSE IF copy.locked
            THEN [state EXCEPT !.world[name].checked_out = "default"]
            ELSE [world |-> [state.world EXCEPT ![name] = CheckoutB(copy, branch)],
                  created |-> Append(state.created, <<name, branch>>)]

\* lines 56-71: the loop over the mission's repos
RECURSIVE PrepareEntries(_, _, _)
PrepareEntries(state, entries, branch) ==
    IF entries = <<>> THEN state
    ELSE PrepareEntries(PrepareEntry(state, Head(entries), branch), Tail(entries), branch)

SbIdle ==
    /\ sbRepos = [r \in RepoNames |-> WorkingCopy(FALSE, "none", FALSE, NoBranches)]
    /\ sbBefore = sbRepos
    /\ sbIdx = 0
    /\ sbPrepared = <<>>
    /\ sbCreated = <<>>

SbInit ==
    /\ sbRepos \in { [r \in RepoNames |-> copy] : copy \in WorkingCopies }
    /\ sbBefore = sbRepos
    /\ sbIdx = 1
    /\ sbPrepared = <<>>
    /\ sbCreated = <<>>

\* lines 51-71: one mission of the list; the branch name is computed with
\* the date of that moment
SandboxMission ==
    /\ mPc = "prepare"
    /\ sbIdx <= Len(mReady)
    /\ LET mission == mReady[sbIdx]
           branch == branch_name_for_mission(mission, CODEX, None, utcDay)
           after == IF mission.repos.t # "list"
                    THEN [world |-> sbRepos, created |-> sbCreated]
                    ELSE PrepareEntries([world |-> sbRepos, created |-> sbCreated],
                                        mission.repos.items, branch)
       IN /\ sbPrepared' = Append(sbPrepared, branch)
          /\ sbRepos' = after.world
          /\ sbCreated' = after.created
    /\ sbIdx' = sbIdx + 1
    /\ UNCHANGED <<sbBefore, mainVars>>

\* line 72: the list of created branches is returned to main
SandboxReturn ==
    /\ mPc = "prepare"
    /\ sbIdx > Len(mReady)
    /\ mPc' = "loop"
    /\ UNCHANGED <<sbVars, mReady, mIdx, mStatus>>

----------------------------------------------------------------------------
(* dispatcher.py, run_nm_910_memory_probe: the Grok memory probe.  prKey,  *)
(* prBaseUrl and prModel are what os.getenv returns for GROK_API_KEY,      *)
(* GROK_API_BASE_URL and GROK_MODEL (None when the variable is not set),   *)
(* prBranch the branch_name argument, prMissing the "missing" list of the  *)
(* credentials, prConstructed and prInvoked whether GrokWorker(config) and *)
(* worker.run(bundle) were reached, prLogged the worker results handed to  *)
(* print_worker_result_log_record, prReturn the dict returned.             *)

GROK_API_KEY == "GROK_API_KEY"

\* a test that takes only an unset variable as missing
CredentialMissingOnlyIfUnset(api_key) == api_key = None

\* line 30: `if not api_key`
CredentialMissing(api_key) == ~Truthy(api_key)

\* lines 25-37: the "missing" list of _grok_credentials_from_env
grok_credentials_missing(api_key) ==
    IF CredentialMissing(api_key) THEN <<GROK_API_KEY>> ELSE <<>>

\* a WorkerResult, as far as the probe reads and writes it
WorkerResult(status, success, error_message, probe_unavailable) ==
    [status |-> status, success |-> success, error_message |-> error_message,
     probe_unavailable |-> probe_unavailable]

\* what worker.run(bundle) may return
WorkerOutcomes ==
    { WorkerResult("success", TRUE, "", FALSE),
      WorkerResult("error", FALSE, "timeout", FALSE),
      WorkerResult("error", FALSE, "HTTP 401", FALSE),
      WorkerResult("success", TRUE, "HTTP 403", FALSE) }

\* line 231: any(code in error_message for code in {"401", "403"})
IsAuthError(error_message) == error_message \in {"HTTP 401", "HTTP 403"}

\* lines 231-239: an authorisation error is turned into probe_unavailable
AfterAuthCheck(r) ==
    IF r.error_message # "" /\ IsAuthError(r.error_message)
    THEN WorkerResult("error", FALSE, "probe_unavailable", TRUE)
    ELSE r

\* the dict run_nm_910_memory_probe returns
ProbeResult(branch, success, worker_status, worker_success) ==
    [branch |-> branch, success |-> success, worker_status |-> worker_status,
     worker_success |-> worker_success]

NoProbeResult == ProbeResult(<<>>, FALSE, "none", FALSE)

ProbeBranches ==
    { branch_name_for_mission(MissionWithId(PyStr(NM("9", "1", "0"))), GROK, None, d) :
        d \in {Day1, Day2} }

ProbeIdle ==
    /\ prKey = None
    /\ prBaseUrl = None
    /\ prModel = None
    /\ prBranch = <<>>
    /\ prMissing = <<>>
    /\ prConstructed = FALSE
    /\ prInvoked = FALSE
    /\ prLogged = <<>>
    /\ prReturn = NoProbeResult
    /\ prPc = "idle"

ProbeInit ==
    /\ prKey \in {None, PyStr(<<>>), PyStr(<<" ">>), PyStr(<<"k">>)}
    /\ prBaseUrl \in {None, PyStr(<<"u">>)}
    /\ prModel \in {None, PyStr(<<>>), PyStr(<<"m">>)}
    /\ prBranch \in ProbeBranches
    /\ prMissing = <<>>
    /\ prConstructed = FALSE
    /\ prInvoked = FALSE
    /\ prLogged = <<>>
    /\ prReturn = NoProbeResult
    /\ prPc = "start"

\* line 192: creds = _grok_credentials_from_env()
ProbeCredentials ==
    /\ prPc = "start"
    /\ prMissing' = grok_credentials_missing(prKey)
    /\ prPc' = "creds"
    /\ UNCHANGED <<prKey, prBaseUrl, prModel, prBranch, prConstructed, prInvoked,
                   prLogged, prReturn>>

\* lines 193-223: a credential is missing; the result is made here, logged
\* and returned
ProbeUnavailable ==
    /\ prPc = "creds"
    /\ prMissing # <<>>
    /\ LET worker_result == WorkerResult("error", FALSE, "probe_unavailable", TRUE)
       IN /\ prLogged' = Append(prLogged, worker_result)
          /\ prReturn' = ProbeResult(prBranch, FALSE, worker_result.status,
                                     worker_result.success)
    /\ prPc' = "returned"
    /\ UNCHANGED <<prKey, prBaseUrl, prModel, prBranch, prMissing, prConstructed,
                   prInvoked>>

\* lines 225-229: the configuration is read and the worker constructed
ProbeConstruct ==
    /\ prPc = "creds"
    /\ prMissing = <<>>
    /\ prConstructed' = TRUE
    /\ prPc' = "worker"
    /\ UNCHANGED <<prKey, prBaseUrl, prModel, prBranch, prMissing, prInvoked,
                   prLogged, prReturn>>

\* lines 230-256: the worker runs; its result is logged and returned
ProbeRun ==
    /\ prPc = "worker"
    /\ prInvoked' = TRUE
    /\ \E outcome \in WorkerOutcomes :
          LET worker_result == AfterAuthCheck(outcome)
          IN /\ prLogged' = Append(prLogged, worker_result)
             /\ prReturn' = ProbeResult(prBranch, worker_result.success,
                                        worker_result.status, worker_result.success)
    /\ prPc' = "returned"
    /\ UNCHANGED <<prKey, prBaseUrl, prModel, prBranch, prMissing, prConstructed>>

----------------------------------------------------------------------------
(* executors/nm_011_scheduler_readme.py, run_nm_011, over the working copy *)
(* of ls-scheduler.  README.md is "missing", "plain" (without the Night    *)
(* Runner section) or "section" (with it): nmWork is the file of the       *)
(* working tree, nmHead the file of the commit the sandbox branch points   *)
(* at, nmRemote the file of origin's sandbox branch ("none" when origin    *)
(* has no such branch).  nmIgnored is whether .gitignore matches           *)
(* README.md, nmPushes the number of `git push` commands run, nmResult the *)
(* dict returned, nmInvocation the number of the invocation.               *)

\* most invocations of run_nm_011 over one working copy
MaxInvocations == 2

NIGHT_SLASH == <<"n", "i", "g", "h", "t", "/">>

\* str.startswith(prefix)
HasPrefix(s, prefix) ==
    Len(s) >= Len(prefix) /\ SubSeq(s, 1, Len(prefix)) = prefix

\* sub in s
InStr(sub, s) ==
    \E i \in 1..(Len(s) - Len(sub) + 1) : SubSeq(s, i, i + Len(sub) - 1) = sub

\* a guard that looks at the "night/" prefix only
PushAllowedOnAnyNightBranch(branch_name) == HasPrefix(branch_name, NIGHT_SLASH)

\* line 121, negated: the branch name is one that may be pushed
PushAllowed(branch_name) ==
    HasPrefix(branch_name, NIGHT_SLASH) /\ InStr(NM("0", "1", "1"), branch_name)

\* the result dict, as far as it varies; message is the parts it was built of
NmResult(success, committed, pushed, message) ==
    [success |-> success, committed |-> committed, pushed |-> pushed,
     message |-> message]

NmBranches ==
    { branch_name_for_mission(MissionWithId(PyStr(NM("0", "1", "1"))), CODEX, None, Day1),
      branch_name_for_mission(MissionWithId(PyStr(NM("0", "2", "0"))), CODEX, None, Day1),
      NM("0", "1", "1"),
      <<"m", "a", "i", "n">> }

Readmes == {"missing", "plain", "section"}

NmIdle ==
    /\ nmIsRepo = FALSE
    /\ nmBranch = <<>>
    /\ nmWork = "missing"
    /\ nmHead = "missing"
    /\ nmRemote = "none"
    /\ nmIgnored = FALSE
    /\ nmPushes = 0
    /\ nmResult = NmResult(FALSE, FALSE, FALSE, <<>>)
    /\ nmInvocation = 0
    /\ nmPc = "idle"

\* a clean working copy: the working tree holds what the branch's commit holds;
\* an ignored README.md is in no commit
NmInit ==
    /\ nmIsRepo \in BOOLEAN
    /\ nmBranch \in NmBranches
    /\ nmHead \in Readmes
    /\ nmIgnored \in BOOLEAN
    /\ nmIgnored => nmHead = "missing"
    /\ nmWork \in IF nmIgnored THEN Readmes ELSE {nmHead}
    /\ nmRemote \in {"none", "plain", "section"}
    /\ nmPushes = 0
    /\ nmResult = NmResult(FALSE, FALSE, FALSE, <<>>)
    /\ nmInvocation = 1
    /\ nmPc = "start"

\* lines 70-72
NmNotRepo ==
    /\ nmPc = "start"
    /\ ~nmIsRepo
    /\ nmResult' = NmResult(FALSE, FALSE, FALSE, <<"not a git repo">>)
    /\ nmPc' = "returned"
    /\ UNCHANGED <<nmIsRepo, nmBranch, nmWork, nmHead, nmRemote, nmIgnored, nmPushes,
                   nmInvocation>>

\* lines 74-77 with sync_with_remote_sandbox (lines 25-55): fetch, checkout
\* and, when origin has the branch, reset --hard onto it, which overwrites
\* the tracked files of the working tree; any of the commands may fail
NmSync ==
    /\ nmPc = "start"
    /\ nmIsRepo
    /\ \E fault \in {"none", "fetch", "checkout", "reset", "unknown revision"} :
          /\ fault \in {"reset", "unknown revision"} => nmRemote # "none"
          /\ IF fault \in {"fetch", "checkout", "reset"}
             THEN /\ nmResult' = NmResult(FALSE, FALSE, FALSE, <<"failed to sync">>)
                  /\ nmPc' = "returned"
                  /\ UNCHANGED <<nmWork, nmHead>>
             ELSE /\ nmResult' = NmResult(FALSE, FALSE, FALSE, <<>>)
                  /\ nmPc' = "synced"
                  /\ IF nmRemote # "none" /\ fault = "none"
                     THEN /\ nmHead' = nmRemote
                          /\ nmWork' = IF nmIgnored THEN nmWork ELSE nmRemote
                     ELSE UNCHANGED <<nmWork, nmHead>>
    /\ UNCHANGED <<nmIsRepo, nmBranch, nmRemote, nmIgnored, nmPushes, nmInvocation>>

\* lines 79-87: README.md is created when missing; with the section in it the
\* executor returns success
NmAlreadyThere ==
    /\ nmPc = "synced"
    /\ nmWork = "section"
    /\ nmResult' = NmResult(TRUE, FALSE, FALSE, <<"already contains">>)
    /\ nmPc' = "returned"
    /\ UNCHANGED <<nmIsRepo, nmBranch, nmWork, nmHead, nmRemote, nmIgnored, nmPushes,
                   nmInvocation>>

\* lines 79-92: README.md is created when missing and the section appended
NmAppend ==
    /\ nmPc = "synced"
    /\ nmWork # "section"
    /\ nmWork' = "section"
    /\ nmPc' = "appended"
    /\ UNCHANGED <<nmIsRepo, nmBranch, nmHead, nmRemote, nmIgnored, nmPushes,
                   nmResult, nmInvocation>>

\* git status --porcelain README.md prints nothing for an ignored file and
\* for a file equal to the committed one
StatusClean == nmIgnored \/ nmWork = nmHead

\* lines 94-102
NmStatus ==
    /\ nmPc = "appended"
    /\ \E returncode \in {0, 1} :
          IF returncode # 0
          THEN /\ nmResult' = NmResult(FALSE, FALSE, FALSE, <<"git status failed">>)
               /\ nmPc' = "returned"
          ELSE IF StatusClean
          THEN /\ nmResult' = NmResult(TRUE, FALSE, FALSE, <<"README unchanged">>)
               /\ nmPc' = "returned"
          ELSE /\ nmPc' = "changed"
               /\ UNCHANGED nmResult
    /\ UNCHANGED <<nmIsRepo, nmBranch, nmWork, nmHead, nmRemote, nmIgnored, nmPushes,
                   nmInvocation>>

\* lines 104-107
NmAdd ==
    /\ nmPc = "changed"
    /\ \E returncode \in {0, 1} :
          IF returncode # 0
          THEN /\ nmResult' = NmResult(FALSE, FALSE, FALSE, <<"git add failed">>)
               /\ nmPc' = "returned"
          ELSE /\ nmPc' = "added"
               /\ UNCHANGED nmResult
    /\ UNCHANGED <<nmIsRepo, nmBranch, nmWork, nmHead, nmRemote, nmIgnored, nmPushes,
                   nmInvocation>>

\* lines 109-119
NmCommit ==
    /\ nmPc = "added"
    /\ \E returncode \in {0, 1} :
          IF returncode # 0
          THEN /\ nmResult' = NmResult(FALSE, FALSE, FALSE, <<"git commit failed">>)
               /\ nmPc' = "returned"
               /\ UNCHANGED nmHead
          ELSE /\ nmResult' = NmResult(TRUE, TRUE, FALSE, <<"committed locally">>)
               /\ nmPc' = "committed"
               /\ nmHead' = nmWork
    /\ UNCHANGED <<nmIsRepo, nmBranch, nmWork, nmRemote, nmIgnored, nmPushes,
                   nmInvocation>>

\* lines 121-123
NmPushSkipped ==
    /\ nmPc = "committed"
    /\ ~PushAllowed(nmBranch)
    /\ nmResult' = [nmResult EXCEPT !.message = Append(@, "push skipped")]
    /\ nmPc' = "returned"
    /\ UNCHANGED <<nmIsRepo, nmBranch, nmWork, nmHead, nmRemote, nmIgnored, nmPushes,
                   nmInvocation>>

\* lines 125-132
NmPush ==
    /\ nmPc = "committed"
    /\ PushAllowed(nmBranch)
    /\ nmPushes' = nmPushes + 1
    /\ \E returncode \in {0, 1} :
          IF returncode = 0
          THEN /\ nmResult' = [nmResult EXCEPT !.pushed = TRUE,
                                              !.message = Append(@, "and pushed")]
               /\ nmRemote' = nmHead
          ELSE /\ nmResult' = [nmResult EXCEPT
                                  !.message = Append(@, "but git push failed")]
               /\ UNCHANGED nmRemote
    /\ nmPc' = "returned"
    /\ UNCHANGED <<nmIsRepo, nmBranch, nmWork, nmHead, nmIgnored, nmInvocation>>

\* run_nm_011 is invoked again over the working copy the last invocation left
NmAgain ==
    /\ nmPc = "returned"
    /\ nmInvocation < MaxInvocations
    /\ nmInvocation' = nmInvocation + 1
    /\ nmResult' = NmResult(FALSE, FALSE, FALSE, <<>>)
    /\ nmPc' = "start"
    /\ UNCHANGED <<nmIsRepo, nmBranch, nmWork, nmHead, nmRemote, nmIgnored, nmPushes>>

----------------------------------------------------------------------------
(* cycle.py, latest_execution_name.  An execution is the dict the az       *)
(* command listed: its name and properties.startTime.  A start time is     *)
(* absent, empty, a text that is no timestamp, or a timestamp written with *)
(* "Z", with an offset, or with no zone.  leExecutions is the list,        *)
(* leOutcome what the call did.                                            *)

\* longest list of executions
MaxExecutions == 3

StartTime(t, zone, at) == [t |-> t, zone |-> zone, at |-> at]

Execution(name, start) == [name |-> name, start |-> start]

\* a datetime: with a zone (aware) or without (naive), at an instant
DateTime(aware, at) == [aware |-> aware, at |-> at]

\* datetime.min, which has no zone
DateTimeMin == DateTime(FALSE, 0)

\* line 166: start.replace("Z", "+00:00")
ReplaceZ(start) == IF start.zone = "Z" THEN [start EXCEPT !.zone = "offset"] ELSE start

\* line 168: datetime.fromisoformat keeps the offset it reads
fromisoformat(clean) == DateTime(clean.zone = "offset", clean.at)

\* lines 162-170
parse_start(item) ==
    IF item.start.t \in {"absent", "none", "empty"} THEN DateTimeMin
    ELSE IF item.start.t = "text" THEN DateTimeMin
    ELSE fromisoformat(ReplaceZ(item.start))

\* a > b for two datetimes: TypeError when only one of them has a zone
Comparable(a, b) == a.aware = b.aware

\* line 172: max(executions, key=parse_start) keeps the first of the largest
\* keys; 0 stands for the TypeError of a comparison
RECURSIVE MaxFrom(_, _, _)
MaxFrom(executions, i, best) ==
    IF i > Len(executions) THEN best
    ELSE LET k == parse_start(executions[i])
             b == parse_start(executions[best])
         IN IF ~Comparable(k, b) THEN 0
            ELSE MaxFrom(executions, i + 1, IF k.at > b.at THEN i ELSE best)

LatestOutcome(kind, name) == [kind |-> kind, name |-> name]

\* lines 157-176
latest_execution_name(executions) ==
    IF executions = <<>> THEN LatestOutcome("SystemExit", None)
    ELSE LET latest == MaxFrom(executions, 2, 1)
         IN IF latest = 0 THEN LatestOutcome("TypeError", None)
            ELSE IF ~Truthy(Get(executions[latest].name))
            THEN LatestOutcome("SystemExit", None)
            ELSE LatestOutcome("returned", executions[latest].name)

ExecutionPool ==
    { Execution(PyStr(<<"a">>), StartTime("stamp", "Z", 1)),
      Execution(PyStr(<<"b">>), StartTime("stamp", "offset", 2)),
      Execution(PyStr(<<"c">>), StartTime("stamp", "Z", 2)),
      Execution(PyStr(<<"d">>), StartTime("absent", "none", 0)),
      Execution(PyStr(<<"e">>), StartTime("text", "none", 0)),
      Execution(PyStr(<<"f">>), StartTime("stamp", "none", 1)),
      Execution(Absent, StartTime("stamp", "Z", 2)) }

LatestIdle ==
    /\ leExecutions = <<>>
    /\ leOutcome = LatestOutcome("none", None)
    /\ lePc = "idle"

LatestInit ==
    /\ leExecutions \in SeqsUpTo(ExecutionPool, MaxExecutions)
    /\ leOutcome = LatestOutcome("none", None)
    /\ lePc = "start"

LatestExecutionName ==
    /\ lePc = "start"
    /\ leOutcome' = latest_execution_name(leExecutions)
    /\ lePc' = "done"
    /\ UNCHANGED leExecutions

----------------------------------------------------------------------------
(* spec_bootstrap.py, ensure_spec_repo, over the disk: bsRoot is what is   *)
(* at spec_root ("none", a "file", a directory "dir", a clone that lacks   *)
(* ops/night_missions, "clone without missions", or a directory with       *)
(* ops/night_missions in it, "dir with missions"), bsParent whether the    *)
(* parent directory exists, bsToken what os.getenv returns for             *)
(* GITHUB_TOKEN, bsCloneAttempts the number of `git clone` commands run,   *)
(* bsBefore the disk as the call found it.                                 *)

Disk(root, parent) == [root |-> root, parent |-> parent]

\* line 37: missions_dir.is_dir()
MissionsDirPresent(root) == root = "dir with missions"

\* lines 12-17: get_github_token
get_github_token(token) == IF Truthy(token) THEN token ELSE None

BootstrapIdle ==
    /\ bsRoot = "none"
    /\ bsParent = FALSE
    /\ bsToken = None
    /\ bsCloneAttempts = 0
    /\ bsBefore = Disk("none", FALSE)
    /\ bsRemovable = FALSE
    /\ bsPc = "idle"

\* a spec root that exists has its parent; bsRemovable is whether rmtree
\* can remove what is at spec_root
BootstrapInit ==
    /\ bsRoot \in {"none", "file", "dir", "clone without missions", "dir with missions"}
    /\ bsParent \in BOOLEAN
    /\ bsRoot # "none" => bsParent
    /\ bsToken \in {None, PyStr(<<>>), PyStr(<<" ">>), PyStr(<<"t">>)}
    /\ bsCloneAttempts = 0
    /\ bsBefore = Disk(bsRoot, bsParent)
    /\ bsRemovable \in BOOLEAN
    /\ bsPc = "start"

\* lines 36-38
BootstrapPresent ==
    /\ bsPc = "start"
    /\ MissionsDirPresent(bsRoot)
    /\ bsPc' = "returned"
    /\ UNCHANGED <<bsRoot, bsParent, bsToken, bsCloneAttempts, bsBefore, bsRemovable>>

\* lines 40-49: the parent is made, what is at spec_root removed; rmtree
\* raises OSError for a file and for a tree it cannot remove
BootstrapClear ==
    /\ bsPc = "start"
    /\ ~MissionsDirPresent(bsRoot)
    /\ bsParent' = TRUE
    /\ IF bsRoot = "none"
       THEN /\ bsPc' = "cleared"
            /\ UNCHANGED bsRoot
       ELSE IF bsRoot = "file" \/ ~bsRemovable
       THEN /\ bsPc' = "returned"
            /\ UNCHANGED bsRoot
       ELSE /\ bsPc' = "cleared"
            /\ bsRoot' = "none"
    /\ UNCHANGED <<bsToken, bsCloneAttempts, bsBefore, bsRemovable>>

\* lines 51-53
BootstrapNoToken ==
    /\ bsPc = "cleared"
    /\ get_github_token(bsToken) = None
    /\ bsPc' = "returned"
    /\ UNCHANGED <<bsRoot, bsParent, bsToken, bsCloneAttempts, bsBefore, bsRemovable>>

\* lines 55-65: git clone into spec_root; it may fail, and the clone may
\* lack ops/night_missions
BootstrapClone ==
    /\ bsPc = "cleared"
    /\ get_github_token(bsToken) # None
    /\ bsCloneAttempts' = bsCloneAttempts + 1
    /\ \E cloned \in {"none", "clone without missions", "dir with missions"} :
          bsRoot' = cloned
    /\ bsPc' = "returned"
    /\ UNCHANGED <<bsParent, bsToken, bsBefore, bsRemovable>>

----------------------------------------------------------------------------
(* cycle.py, summarize_missions: the lines print_cycle_summary prints for  *)
(* the mission results.                                                    *)

SummaryLine(text, of) == [text |-> text, of |-> of]

Summary(raised, lines) == [raised |-> raised, lines |-> lines]

\* lines 319-336: result.get is called on every entry, which raises
\* AttributeError for an entry that is no dict
summarize_missions(results) ==
    IF \E i \in 1..Len(results) : results[i].t # "dict"
    THEN Summary("AttributeError", <<>>)
    ELSE IF results = <<>>
    THEN Summary("no", <<SummaryLine("- (no mission results found)", 0)>>)
    ELSE Summary("no", [i \in 1..Len(results) |->
                            SummaryLine("- {mission_id}: success={success}",
                                        results[i].id)])

----------------------------------------------------------------------------
(* Specifications: one per operation, each drawing the operation's inputs  *)
(* in its initial states and leaving the other operations idle.            *)

CoreIdle == SelIdle /\ LoadIdle /\ BnIdle /\ utcDay = Day1 /\ SyncIdle /\ DIdle
ToolIdle == ProbeIdle /\ NmIdle /\ LatestIdle /\ BootstrapIdle
RunIdle == RecIdle /\ MainIdle /\ ParseIdle /\ PipeIdle /\ CyIdle /\ SbIdle /\ ToolIdle

SelFrame == UNCHANGED <<loadVars, bnVars, utcDay, syncVars, dVars, runVars>>
SelStart ==
    SelInit /\ LoadIdle /\ BnIdle /\ utcDay = Day1 /\ SyncIdle /\ DIdle /\ RunIdle
SelNext ==
    \/ SelectReady /\ SelFrame
    \/ SelectReordered /\ SelFrame
SpecSelect == SelStart /\ [][SelNext]_vars

LoadFrame == UNCHANGED <<selVars, bnVars, utcDay, syncVars, dVars, runVars>>
LoadStart ==
    SelIdle /\ LoadInit /\ BnIdle /\ utcDay = Day1 /\ SyncIdle /\ DIdle /\ RunIdle
LoadNext ==
    \/ LoadSkipNoFile /\ LoadFrame
    \/ LoadFile /\ LoadFrame
    \/ LoadRaise /\ LoadFrame
    \/ LoadReturn /\ LoadFrame
SpecLoad == LoadStart /\ [][LoadNext]_vars

BnFrame == UNCHANGED <<selVars, loadVars, utcDay, syncVars, dVars, runVars>>
BnStart ==
    SelIdle /\ LoadIdle /\ BnInit /\ utcDay = Day1 /\ SyncIdle /\ DIdle /\ RunIdle
BnNext ==
    \/ BranchNameA /\ BnFrame
    \/ BranchNameB /\ BnFrame
    \/ Midnight /\ UNCHANGED <<selVars, loadVars, bnVars, syncVars, dVars, runVars>>
SpecBranch == BnStart /\ [][BnNext]_vars

SyncFrame == UNCHANGED <<selVars, loadVars, bnVars, utcDay, dVars, runVars>>
SyncStart ==
    SelIdle /\ LoadIdle /\ BnIdle /\ utcDay = Day1 /\ SyncInit /\ DIdle /\ RunIdle
SyncNext ==
    \/ SyncFetch /\ SyncFrame
    \/ SyncCheckout /\ SyncFrame
    \/ SyncReset /\ SyncFrame
SpecSync == SyncStart /\ [][SyncNext]_vars

DFrame == UNCHANGED <<selVars, loadVars, bnVars, utcDay, syncVars, runVars>>
DStart ==
    SelIdle /\ LoadIdle /\ BnIdle /\ utcDay = Day1 /\ SyncIdle /\ DInit /\ RunIdle
DNext ==
    \/ DispatchEnter /\ DFrame
    \/ DispatchSkipEntry /\ DFrame
    \/ DispatchPathError /\ DFrame
    \/ DispatchInvoke /\ DFrame
    \/ DispatchReturn /\ DFrame
    \/ Midnight /\ UNCHANGED <<selVars, loadVars, bnVars, syncVars, dVars, runVars>>
SpecDispatch == DStart /\ [][DNext]_vars

\* every operation, from the initial states of any one of them
RecFrame == UNCHANGED <<coreVars, mainVars, parseVars, pipeVars, cyVars,
    sbVars, toolVars>>
RecStart ==
    CoreIdle /\ RecInit /\ MainIdle /\ ParseIdle /\ PipeIdle /\ CyIdle
    /\ SbIdle /\ ToolIdle
RecNext ==
    \/ WriteMissionResult /\ UNCHANGED clock /\ RecFrame
    \/ Tick /\ UNCHANGED recVars /\ RecFrame
SpecRecord == RecStart /\ [][RecNext]_vars

MainFrame ==
    UNCHANGED <<selVars, loadVars, bnVars, syncVars, parseVars, pipeVars, cyVars,
               toolVars>>
MainStart ==
    CoreIdle /\ RecInit /\ MainInit /\ ParseIdle /\ PipeIdle /\ CyIdle
    /\ SbInit /\ ToolIdle
MainNext ==
    \/ SandboxMission /\ UNCHANGED <<utcDay, dVars, recVars, clock>> /\ MainFrame
    \/ SandboxReturn /\ UNCHANGED <<utcDay, dVars, recVars, clock>> /\ MainFrame
    \/ MainDispatch /\ UNCHANGED <<utcDay, recVars, clock, sbVars>> /\ MainFrame
    \/ DispatchEnter /\ UNCHANGED <<utcDay, recVars, clock, mainVars, sbVars>> /\ MainFrame
    \/ DispatchSkipEntry /\ UNCHANGED <<utcDay, recVars, clock, mainVars, sbVars>> /\ MainFrame
    \/ DispatchPathError /\ UNCHANGED <<utcDay, recVars, clock, mainVars, sbVars>> /\ MainFrame
    \/ DispatchInvoke /\ UNCHANGED <<utcDay, recVars, clock, mainVars, sbVars>> /\ MainFrame
    \/ DispatchReturn /\ UNCHANGED <<utcDay, recVars, clock, mainVars, sbVars>> /\ MainFrame
    \/ MainExecutorRaised /\ UNCHANGED <<utcDay, dVars, recVars, clock, sbVars>> /\ MainFrame
    \/ MainRecord /\ UNCHANGED <<utcDay, dVars, clock, sbVars>> /\ MainFrame
    \/ MainDone /\ UNCHANGED <<utcDay, dVars, recVars, clock, sbVars>> /\ MainFrame
    \/ Tick /\ UNCHANGED <<utcDay, dVars, recVars, mainVars, sbVars>> /\ MainFrame
    \/ Midnight /\ UNCHANGED <<dVars, recVars, clock, mainVars, sbVars>> /\ MainFrame
SpecMain == MainStart /\ [][MainNext]_vars

ParseFrame == UNCHANGED <<coreVars, recVars, clock, mainVars, pipeVars, cyVars,
    sbVars, toolVars>>
ParseStart ==
    CoreIdle /\ RecIdle /\ MainIdle /\ ParseInit /\ PipeIdle /\ CyIdle
    /\ SbIdle /\ ToolIdle
ParseNext ==
    \/ ParseNoFile /\ ParseFrame
    \/ ParseOpen /\ ParseFrame
    \/ ParseLine /\ ParseFrame
    \/ ParseReturn /\ ParseFrame
SpecParse == ParseStart /\ [][ParseNext]_vars

PipeFrame == UNCHANGED <<coreVars, recVars, clock, mainVars, parseVars, cyVars,
    sbVars, toolVars>>
PipeStart ==
    CoreIdle /\ RecIdle /\ MainIdle /\ ParseIdle /\ PipeInit /\ CyIdle
    /\ SbIdle /\ ToolIdle
PipeNext ==
    \/ PipeLogs /\ PipeFrame
    \/ PipeMetadata /\ PipeFrame
    \/ PipeMissionResults /\ PipeFrame
    \/ PipeWorkerResults /\ PipeFrame
    \/ PipeReportSkipped /\ PipeFrame
    \/ PipeReport /\ PipeFrame
    \/ PipeSummaries /\ PipeFrame
    \/ PipeIngest /\ PipeFrame
    \/ PipeReturn /\ PipeFrame
    \/ PipeAgain /\ PipeFrame
SpecPipeline == PipeStart /\ [][PipeNext]_vars

CyFrame == UNCHANGED <<coreVars, recVars, clock, mainVars, parseVars,
    sbVars, toolVars>>
CyStart ==
    CoreIdle /\ RecIdle /\ MainIdle /\ ParseIdle /\ PipeIdle /\ CyInit
    /\ SbIdle /\ ToolIdle
CyNext ==
    \/ CycleJob /\ UNCHANGED pipeVars /\ CyFrame
    \/ CycleList /\ UNCHANGED pipeVars /\ CyFrame
    \/ CycleRunDir /\ UNCHANGED pipeVars /\ CyFrame
    \/ CycleFetchLogs /\ UNCHANGED pipeVars /\ CyFrame
    \/ CycleFetchMetadata /\ UNCHANGED pipeVars /\ CyFrame
    \/ CycleProcess /\ CyFrame
    \/ PipeLogs /\ UNCHANGED cyVars /\ CyFrame
    \/ PipeMetadata /\ UNCHANGED cyVars /\ CyFrame
    \/ PipeMissionResults /\ UNCHANGED cyVars /\ CyFrame
    \/ PipeWorkerResults /\ UNCHANGED cyVars /\ CyFrame
    \/ PipeReportSkipped /\ UNCHANGED cyVars /\ CyFrame
    \/ PipeReport /\ UNCHANGED cyVars /\ CyFrame
    \/ PipeSummaries /\ UNCHANGED cyVars /\ CyFrame
    \/ PipeIngest /\ UNCHANGED cyVars /\ CyFrame
    \/ PipeReturn /\ UNCHANGED cyVars /\ CyFrame
    \/ CycleSummary /\ UNCHANGED pipeVars /\ CyFrame
    \/ CyclePipelineExit /\ UNCHANGED pipeVars /\ CyFrame
SpecCycle == CyStart /\ [][CyNext]_vars

ProbeFrame == UNCHANGED <<coreVars, recVars, clock, mainVars, parseVars, pipeVars, cyVars,
                          sbVars, nmVars, leVars, bsVars>>
ProbeStart ==
    /\ CoreIdle /\ RecIdle /\ MainIdle /\ ParseIdle /\ PipeIdle /\ CyIdle /\ SbIdle
    /\ ProbeInit /\ NmIdle /\ LatestIdle /\ BootstrapIdle
ProbeNext ==
    \/ ProbeCredentials /\ ProbeFrame
    \/ ProbeUnavailable /\ ProbeFrame
    \/ ProbeConstruct /\ ProbeFrame
    \/ ProbeRun /\ ProbeFrame
SpecProbe == ProbeStart /\ [][ProbeNext]_vars

NmFrame == UNCHANGED <<coreVars, recVars, clock, mainVars, parseVars, pipeVars, cyVars,
                       sbVars, probeVars, leVars, bsVars>>
NmStart ==
    /\ CoreIdle /\ RecIdle /\ MainIdle /\ ParseIdle /\ PipeIdle /\ CyIdle /\ SbIdle
    /\ ProbeIdle /\ NmInit /\ LatestIdle /\ BootstrapIdle
NmNext ==
    \/ NmNotRepo /\ NmFrame
    \/ NmSync /\ NmFrame
    \/ NmAlreadyThere /\ NmFrame
    \/ NmAppend /\ NmFrame
    \/ NmStatus /\ NmFrame
    \/ NmAdd /\ NmFrame
    \/ NmCommit /\ NmFrame
    \/ NmPushSkipped /\ NmFrame
    \/ NmPush /\ NmFrame
    \/ NmAgain /\ NmFrame
SpecReadme == NmStart /\ [][NmNext]_vars

LatestFrame == UNCHANGED <<coreVars, recVars, clock, mainVars, parseVars, pipeVars, cyVars,
                           sbVars, probeVars, nmVars, bsVars>>
LatestStart ==
    /\ CoreIdle /\ RecIdle /\ MainIdle /\ ParseIdle /\ PipeIdle /\ CyIdle /\ SbIdle
    /\ ProbeIdle /\ NmIdle /\ LatestInit /\ BootstrapIdle
LatestNext ==
    \/ LatestExecutionName /\ LatestFrame
SpecLatest == LatestStart /\ [][LatestNext]_vars

BootstrapFrame ==
    UNCHANGED <<coreVars, recVars, clock, mainVars, parseVars, pipeVars, cyVars,
                sbVars, probeVars, nmVars, leVars>>
BootstrapStart ==
    /\ CoreIdle /\ RecIdle /\ MainIdle /\ ParseIdle /\ PipeIdle /\ CyIdle /\ SbIdle
    /\ ProbeIdle /\ NmIdle /\ LatestIdle /\ BootstrapInit
BootstrapNext ==
    \/ BootstrapPresent /\ BootstrapFrame
    \/ BootstrapClear /\ BootstrapFrame
    \/ BootstrapNoToken /\ BootstrapFrame
    \/ BootstrapClone /\ BootstrapFrame
SpecBootstrap == BootstrapStart /\ [][BootstrapNext]_vars

Init ==
    SelStart \/ LoadStart \/ BnStart \/ SyncStart \/ DStart
    \/ RecStart \/ MainStart \/ ParseStart \/ PipeStart \/ CyStart
    \/ ProbeStart \/ NmStart \/ LatestStart \/ BootstrapStart
Next ==
    SelNext \/ LoadNext \/ BnNext \/ SyncNext \/ DNext
    \/ RecNext \/ MainNext \/ ParseNext \/ PipeNext \/ CyNext
    \/ ProbeNext \/ NmNext \/ LatestNext \/ BootstrapNext
Spec == Init /\ [][Next]_vars

----------------------------------------------------------------------------
(* Properties of select_ready_missions (SpecSelect) *)

\* the status and tier of a mission as the specification reads them
StatusIsReady(m) == m.status = PyStr(READY)
TierIsL1(m) == m.risk.t = "dict" /\ m.risk.tier = PyStr(L1)

\* the priority of a mission: its integer, 50 when missing or no integer
\* (a YAML boolean is a Python int: true is 1, false is 0)
ClaimPriority(m) == IF m.priority.t \in {"int", "bool"} THEN m.priority.n ELSE 50
\* the text of its mission_id, empty when it has none
ClaimId(m) == IF m.mission_id.t = "str" THEN m.mission_id.s ELSE <<>>
ClaimKeyLeq(a, b) ==
    \/ ClaimPriority(a) < ClaimPriority(b)
    \/ /\ ClaimPriority(a) = ClaimPriority(b)
       /\ (ClaimId(a) = ClaimId(b) \/ StrLess(ClaimId(a), ClaimId(b)))
ClaimKeyLess(a, b) == ClaimKeyLeq(a, b) /\ ~ClaimKeyLeq(b, a)

\* the missions of the input that are ready and L1
EligibleIndexes == { i \in 1..Len(missions) : StatusIsReady(missions[i]) /\ TierIsL1(missions[i]) }
Min(a, b) == IF a < b THEN a ELSE b
Max(a, b) == IF a > b THEN a ELSE b

\* C1: select_ready_missions never returns a mission whose status is not
\* exactly "ready" or whose risk.tier is not exactly "L1" (a missing status, a
\* missing risk block and a risk that is no mapping included), whatever its
\* priority.
C1_OnlyReadyL1Selected ==
    selPc = "done" =>
        \A i \in 1..Len(ready) : StatusIsReady(ready[i]) /\ TierIsL1(ready[i])

\* C1 witness: a selection that returned a mission and left out a mission
\* of lower priority number that is not ready or not L1.
C1_Witness ==
    /\ selPc = "done"
    /\ Len(ready) >= 1
    /\ \E i \in 1..Len(missions) :
          /\ ~(StatusIsReady(missions[i]) /\ TierIsL1(missions[i]))
          /\ ClaimPriority(missions[i]) < ClaimPriority(ready[1])

\* C2: the list returned is sorted ascending by (priority, mission_id), a
\* missing or non-integer priority counting as 50.
C2_SortedByPriorityThenId ==
    selPc = "done" =>
        \A i \in 1..(Len(ready) - 1) : ClaimKeyLeq(ready[i], ready[i + 1])

\* C2 witness: two missions of equal priority were given in descending
\* mission_id order and are returned in ascending order.
C2_Witness ==
    /\ selPc = "done"
    /\ Len(ready) >= 2
    /\ ClaimPriority(ready[1]) = ClaimPriority(ready[2])
    /\ StrLess(ClaimId(ready[1]), ClaimId(ready[2]))
    /\ \E i, j \in 1..Len(missions) :
          i < j /\ missions[i] = ready[2] /\ missions[j] = ready[1]

\* C3: truncation. With e eligible missions, select_ready_missions returns
\* at most max(maxCount, 0) missions for every integer maxCount, and for
\* maxCount >= 0 exactly the min(maxCount, e) lowest by (priority, mission_id).
C3_Truncation ==
    selPc = "done" =>
        /\ Len(ready) <= Max(max_missions, 0)
        /\ max_missions >= 0 =>
              /\ Len(ready) = Min(max_missions, Cardinality(EligibleIndexes))
              /\ \A i \in 1..Len(ready) : \A j \in EligibleIndexes :
                    ClaimKeyLess(missions[j], ready[i])
                        => \E k \in 1..Len(ready) : ready[k] = missions[j]

\* C4: selection is independent of load order. Selecting again from the same
\* missions in another order, with the same maxCount, returns the same
\* missions in the same order, two missions of one priority and one
\* mission_id included. (Stated for maxCount >= 0.)
C4_IndependentOfLoadOrder ==
    [][(selPc = "done" /\ selPc' = "done" /\ max_missions >= 0) => ready' = ready]_vars

----------------------------------------------------------------------------
(* Properties of load_missions (SpecLoad) *)

\* the file a loaded mission came from
FileOf(m) == CHOOSE k \in 1..MaxFiles : m.source = PyStr(Stem(k))
DeclaresId(doc) == doc.kind = "mapping" /\ Truthy(doc.mission_id)

\* C5: every mission load_missions returns has a non-empty mission_id: the
\* one its file declares, and the stem of the file when the file declares
\* none, declares null or an empty one, or holds no mapping.
C5_EveryMissionIdentifiable ==
    loadPc = "done" =>
        \A i \in 1..Len(loaded) :
            LET m == loaded[i]
                doc == missionFiles[FileOf(m)]
            IN  /\ m.mission_id.t = "str"
                /\ m.mission_id.s # <<>>
                /\ m.mission_id = IF DeclaresId(doc) THEN doc.mission_id
                                  ELSE PyStr(Stem(FileOf(m)))

----------------------------------------------------------------------------
(* Properties of branch_name_for_mission (SpecBranch) *)

\* C6: branch_name_for_mission is a pure function of (mission_id, agent,
\* date): with an explicit date it returns night/{date}/{mission_id}-{agent}
\* on every call, and two missions whose identifiers differ (one without a
\* mission_id against one with any included) never get the same name.
C6_BranchNamePureAndInjective ==
    bnPc = "done" =>
        /\ (bnDate.t = "str" /\ bnDate.s # <<>> /\ bnMissionA.mission_id.t = "str") =>
              bnNameA = <<"n", "i", "g", "h", "t", "/">> \o bnDate.s \o <<"/">>
                          \o bnMissionA.mission_id.s \o <<"-">> \o bnAgent
        /\ bnMissionA.mission_id # bnMissionB.mission_id => bnNameA # bnNameB

----------------------------------------------------------------------------
(* Properties of sync_with_remote_sandbox (SpecSync) *)

\* C7: when the fetch fails because the remote ref does not exist,
\* sync_with_remote_sandbox returns ok with the detail that there is no
\* remote branch and the local sandbox is used, whether or not the branch
\* exists locally, and never runs the hard reset. (Stated for the runs in
\* which no git command fails for a reason of its own.)
C7_MissingRemoteIsNotFatal ==
    (syncPc = "done" /\ missing_remote /\ gitFault = "none") =>
        /\ syncResult = SyncReturn(TRUE, "no remote branch; using local sandbox")
        /\ ~resetRan

----------------------------------------------------------------------------
(* Properties of run_mission_executor (SpecDispatch) *)

Registered(m) == m.mission_id.t = "str" /\ m.mission_id.s \in ExecutorIds
\* the entries of the repos list that have a non-empty name, in order
Named(entry) ==
    /\ entry.t = "dict"
    /\ entry.name.t \notin {"absent", "none"}
    /\ entry.name # PyStr(<<>>)
NamedEntries(m) == IF m.repos.t = "list" THEN SelectSeq(m.repos.items, Named) ELSE <<>>
ReposIsList(m) == m.repos.t \in {"list", "absent", "none"}

\* C8: dispatching a mission whose mission_id has no registered executor
\* returns {skipped, reason "no executor"} without raising, whatever its
\* repos value, calls no executor and computes no branch name.
C8_NoExecutorSkipped ==
    (dPc \notin {"idle", "start"} /\ ~Registered(dMission)) =>
        /\ dPc = "returned"
        /\ dReturn.kind = "skipped"
        /\ dReturn.reason = "no executor"
        /\ dReturn.mission = Get(dMission.mission_id)
        /\ dCalls = <<>>
        /\ ~dBranchComputed

\* C8 witness: a mission with an unregistered id and a repos list holding a
\* named entry was dispatched and skipped.
C8_Witness ==
    /\ dPc = "returned"
    /\ dMission.mission_id = PyStr(NM("9", "9", "9"))
    /\ Len(NamedEntries(dMission)) >= 1
    /\ dReturn.reason = "no executor"

\* C9: for a registered mission whose repos list is empty or has no entry
\* with a non-empty name, run_mission_executor calls the executor zero times,
\* does not raise, and returns the one result {skipped, "no valid repos"}.
C9_NoValidReposSkipped ==
    (dPc \notin {"idle", "start"} /\ Registered(dMission) /\ ReposIsList(dMission)
        /\ NamedEntries(dMission) = <<>>) =>
        /\ dCalls = <<>>
        /\ dPc \in {"loop", "returned"}
        /\ dPc = "returned" =>
              /\ dReturn.kind = "skipped"
              /\ dReturn.reason = "no valid repos"
              /\ dReturn.mission = dMission.mission_id

\* C9 witness: a registered mission with two entries, neither named, has
\* returned its skipped result.
C9_Witness ==
    /\ dPc = "returned"
    /\ Registered(dMission)
    /\ dMission.repos.t = "list" /\ Len(dMission.repos.items) >= 2
    /\ NamedEntries(dMission) = <<>>
    /\ dReturn.reason = "no valid repos"

\* C10: for a registered mission with k >= 1 named entries, the executor is
\* called once per named entry, in declared order and with one branch name
\* (at every moment the calls made are the first named entries, in order);
\* when run_mission_executor returns, all k calls were made and the result
\* returned is the result of the call for the first named entry.
C10_OncePerRepoFirstReturned ==
    (Registered(dMission) /\ ReposIsList(dMission) /\ Len(NamedEntries(dMission)) >= 1) =>
        /\ Len(dCalls) <= Len(NamedEntries(dMission))
        /\ \A j \in 1..Len(dCalls) :
              /\ PyStr(dCalls[j].repo) = NamedEntries(dMission)[j].name
              /\ dCalls[j].branch = dCalls[1].branch
              /\ dCalls[j].mission = dMission
        /\ dPc = "returned" =>
              /\ Len(dCalls) = Len(NamedEntries(dMission))
              /\ Len(dResults) = Len(dCalls)
              /\ dReturn = dResults[1]
              /\ dReturn.kind = "result"
              /\ dReturn.repo = dCalls[1].repo

\* C10 witness: a mission with an unnamed entry between two named ones has
\* returned; the executor was called twice, the second result differs from
\* the first, and the first was returned.
C10_Witness ==
    /\ dPc = "returned"
    /\ Len(dCalls) = 2
    /\ Len(dMission.repos.items) = 3
    /\ ~Named(dMission.repos.items[2])
    /\ dResults[1] # dResults[2]
    /\ dResults[1].success # dResults[2].success
    /\ dReturn = dResults[1]


----------------------------------------------------------------------------
(* Properties of the dispatch loop of main (SpecMain) *)

\* C11: every mission of ready_missions is dispatched and a record for it
\* is written, whatever happened to the missions before it.  Stated on the
\* runs of main that have ended: no mission is left that was never
\* dispatched, and a mission that was dispatched has its record unless its
\* own executor raised or the writing of its own record failed.
C11_EveryMissionDispatchedAndRecorded ==
    mPc \in {"done", "raised"} =>
        \A i \in 1..Len(mReady) : mStatus[i] \in {"recorded", "raised", "unrecorded"}

----------------------------------------------------------------------------
(* Properties of results.py (SpecRecord) *)

\* the calls of write_mission_result that returned, for one run_id
CallsFor(run_id) == SelectSeq(recCalls, LAMBDA c : c.run_id = run_id)
\* the lines of mission_results_<run_id>.jsonl
LinesOf(run_id) ==
    resultFiles[<<"preferred", run_id>>] \o resultFiles[<<"fallback", run_id>>]

\* C12: mission_results_<run_id>.jsonl holds one line per call of
\* write_mission_result for that run_id, in call order (so a call leaves the
\* lines before it as they were); each line is the result of its call with
\* run_id equal to the argument of the call, also when the result had a
\* run_id of its own, and with the time of the write as timestamp.
C12_RunLogAppendOnly ==
    \A run_id \in RunIds :
        /\ Len(LinesOf(run_id)) = Len(CallsFor(run_id))
        /\ \A i \in 1..Len(CallsFor(run_id)) :
              /\ LinesOf(run_id)[i].body = CallsFor(run_id)[i].mission_result.body
              /\ LinesOf(run_id)[i].run_id = PyStr(run_id)
              /\ LinesOf(run_id)[i].timestamp = PyInt(CallsFor(run_id)[i].at)

\* C12 witness: two results were written for one run at different times,
\* the second of them carrying the run_id of another run.
C12_Witness ==
    /\ Len(CallsFor(RunA)) = 2
    /\ CallsFor(RunA)[1].at < CallsFor(RunA)[2].at
    /\ CallsFor(RunA)[2].mission_result.run_id = PyStr(RunB)
    /\ Len(LinesOf(RunA)) = 2

\* C13: get_results_root never raises: no call ends with the OSError of a
\* results root that cannot be made, and when the preferred root cannot be
\* made the lines go to the fallback root.
C13_ResultsRootNeverRaises ==
    /\ recOutcome # "OSError"
    /\ (recOutcome = "written" /\ ~preferredOk) =>
          \A run_id \in RunIds :
              resultFiles[<<"fallback", run_id>>] = LinesOf(run_id)

----------------------------------------------------------------------------
(* Properties of parse_mission_results (SpecParse) *)

\* a line that begins with the marker, whitespace around the line aside
MarkerLine(raw) == raw.head = "marker"
\* what follows the marker is a JSON value
ValidJson(raw) == raw.payload.k \in {"object", "scalar"}
\* what follows the marker is text that is no JSON
BadJson(raw) == raw.payload.k = "invalid"
\* the payloads of the well-formed marker lines among lines, in order
Extracted(lines) ==
    LET good == SelectSeq(lines, LAMBDA raw : MarkerLine(raw) /\ ValidJson(raw))
    IN  [i \in 1..Len(good) |-> JsonLoads(good[i].payload)]
\* the payloads of the malformed marker lines among lines, in order
Warned(lines) ==
    LET bad == SelectSeq(lines, LAMBDA raw : MarkerLine(raw) /\ BadJson(raw))
    IN  [i \in 1..Len(bad) |-> bad[i].payload]

----------------------------------------------------------------------------
(* Properties of process_cycle_artifacts (SpecPipeline) *)

Happened(event) == \E i \in 1..Len(pEvents) : pEvents[i] = event
Count(event) == Cardinality({ i \in 1..Len(pEvents) : pEvents[i] = event })
PastReport == pPc \in {"summaries", "ingest", "return", "returned", "SystemExit"}
\* the worker records of the log the invocation materialized
WorkerLines == SelectSeq(logs_text, LAMBDA raw : raw.head = "worker")

\* C14: a second run of process_cycle_artifacts for the same directory and
\* name with the raw log unchanged (given again, or left out) leaves
\* logs_<name>.txt, mission_results_<name>.jsonl and
\* worker_results_<name>.jsonl as the first run left them.
C14_SecondRunLeavesTablesUnchanged ==
    (pInvocation = "second" /\ pUnchanged /\ pPc = "returned") =>
        /\ runDir.logs = pBefore.logs
        /\ runDir.mission_results = pBefore.mission_results
        /\ runDir.worker_results = pBefore.worker_results

\* C16: the report generator is run if and only if the mission-results
\* table this invocation wrote is not empty; with an empty table the
\* invocation leaves night_report_<name>.md as it found it (none, in a
\* fresh directory).
C16_ReportOnlyForResults ==
    /\ Happened("run night_report") => runDir.mission_results.lines # <<>>
    /\ PastReport =>
          /\ Happened("run night_report") <=> mission_results # <<>>
          /\ runDir.mission_results.lines = <<>> =>
                /\ runDir.night_report = pBefore.night_report
                /\ ~Happened("write night_report")

\* C16 witness: an invocation on a fresh directory whose log has a
\* malformed marker line and no well-formed one has returned without a
\* report.
C16_Witness ==
    /\ pPc = "returned"
    /\ pInvocation = "first"
    /\ \E i \in 1..Len(logs_text) : logs_text[i].head = "marker"
    /\ mission_results = <<>>
    /\ ~runDir.night_report.exists

\* C17: when process_cycle_artifacts has returned: with no worker record
\* in the log and no worker_results_<name>.jsonl before the invocation,
\* there is no such file and worker_results_path is None; with a record in
\* the log the file holds the records and its path is returned.
C17_WorkerTableOnlyWhenFound ==
    pPc = "returned" =>
        /\ (WorkerLines = <<>> /\ ~pBefore.worker_results.exists) =>
              /\ ~runDir.worker_results.exists
              /\ ~pReturn.worker_results_path
        /\ WorkerLines # <<>> =>
              /\ runDir.worker_results.exists
              /\ runDir.worker_results.lines =
                    [i \in 1..Len(WorkerLines) |-> WorkerLines[i].payload]
              /\ pReturn.worker_results_path

\* C17 witness: a log with lines but no worker record, a fresh directory,
\* the invocation has returned.
C17_Witness ==
    /\ pPc = "returned"
    /\ pInvocation = "first"
    /\ logs_text # <<>>
    /\ WorkerLines = <<>>
    /\ ~runDir.worker_results.exists
    /\ ~pReturn.worker_results_path

\* C18: in every run of process_cycle_artifacts the log and the metadata
\* are written before the mission results are extracted, the extraction
\* reads the log file written, and indexing is triggered after every other
\* artifact write and exactly once: nothing is written after it, and a run
\* that has ended has triggered it once.
C18_PipelineOrdering ==
    /\ \A i \in 1..Len(pEvents) :
          /\ pEvents[i] = "read logs" =>
                /\ \E j \in 1..(i - 1) : pEvents[j] = "write logs"
                /\ \A j \in (i + 1)..Len(pEvents) :
                      pEvents[j] \notin {"write logs", "write exec"}
          /\ pEvents[i] = "ingest" => i = Len(pEvents)
    /\ PastReport /\ pPc # "SystemExit" => mission_results = parse_mission_results(runDir.logs)
    /\ pPc \in {"returned", "SystemExit"} => Count("ingest") = 1

\* C19: a failure inside the pipeline does not end the process: a report
\* generator that exits with a code other than 0 does not take
\* process_cycle_artifacts out by SystemExit, and the invocation goes on to
\* the summaries, the indexing and its return.
C19_ReportFailureNotFatal ==
    /\ pPc # "SystemExit"
    /\ (Happened("run night_report") /\ pPc = "returned") =>
          /\ Happened("write run_summary")
          /\ Happened("write worker_summary")
          /\ Happened("ingest")

----------------------------------------------------------------------------
(* Properties of main of cycle.py in remote mode (SpecCycle) *)

\* C20: when the job trigger, the execution listing, the log fetch or the
\* metadata fetch exits with a code other than 0, the cycle ends at that
\* step with an exit code other than 0: that command is the last one
\* issued, process_cycle_artifacts is not entered, and no logs_, exec_ or
\* mission_results_ file is written.
C20_NoPartialSuccess ==
    cyFailed # "none" =>
        /\ cyPc = "exited"
        /\ cyExit # 0
        /\ cyCommands[Len(cyCommands)] = cyFailed
        /\ pPc = "idle"
        /\ pEvents = <<>>
        /\ ~runDir.logs.exists
        /\ ~runDir.exec.exists
        /\ ~runDir.mission_results.exists

\* C20 witness: the metadata fetch failed after the run directory was made
\* and the log fetched; the process has ended.
C20_Witness ==
    /\ cyFailed = "fetch_execution_metadata"
    /\ cyPc = "exited"
    /\ cyRunDir
    /\ cyLogs.given /\ cyLogs.text # <<>>
    /\ Len(cyCommands) = 4


----------------------------------------------------------------------------
(* Properties of run_nm_910_memory_probe (SpecProbe) *)

\* C21: when GROK_API_KEY is absent or empty, run_nm_910_memory_probe never
\* constructs or invokes the worker; once it has returned it has logged one
\* worker result with status "error", success false and
\* metadata.probe_unavailable true, and the mission result it returned has
\* success false and worker_status "error".
C21_CredentialShortCircuit ==
    prKey \in {None, PyStr(<<>>)} =>
        /\ ~prConstructed
        /\ ~prInvoked
        /\ prPc = "returned" =>
              /\ Len(prLogged) = 1
              /\ prLogged[1].status = "error"
              /\ ~prLogged[1].success
              /\ prLogged[1].probe_unavailable
              /\ ~prReturn.success
              /\ prReturn.worker_status = "error"

\* C21 witness: the probe has returned with GROK_API_KEY set to the empty
\* string, having logged its one worker result.
C21_Witness ==
    /\ prPc = "returned"
    /\ prKey = PyStr(<<>>)
    /\ Len(prLogged) = 1
    /\ prReturn.branch = prBranch

----------------------------------------------------------------------------
(* Properties of run_nm_011 (SpecReadme) *)

\* the branch name follows the mission's naming convention
MatchesConvention(branch_name) ==
    /\ Len(branch_name) >= 6
    /\ SubSeq(branch_name, 1, 6) = <<"n", "i", "g", "h", "t", "/">>
    /\ \E i \in 1..Len(branch_name) :
          i + 5 <= Len(branch_name)
          /\ SubSeq(branch_name, i, i + 5) = <<"N", "M", "-", "0", "1", "1">>
InMessage(part) == \E i \in 1..Len(nmResult.message) : nmResult.message[i] = part

\* C22: git push is run only for a branch name that starts with "night/" and
\* contains "NM-011"; for another branch name a result that reports a commit
\* has success true, committed true, pushed false and the push-skipped
\* caveat in its message, no push having been run; and in every result
\* returned pushed implies committed and committed implies success.
C22_PushGuard ==
    /\ nmPushes > 0 => MatchesConvention(nmBranch)
    /\ (nmPc = "returned" /\ ~MatchesConvention(nmBranch) /\ nmResult.committed) =>
          /\ nmResult.success
          /\ ~nmResult.pushed
          /\ InMessage("push skipped")
          /\ nmHead = "section"
          /\ nmPushes = 0
    /\ nmPc = "returned" =>
          /\ nmResult.pushed => nmResult.committed
          /\ nmResult.committed => nmResult.success

\* C22 witness: the executor has returned after committing on a night/
\* branch of another mission.
C22_Witness ==
    /\ nmPc = "returned"
    /\ nmResult.committed
    /\ ~MatchesConvention(nmBranch)
    /\ Len(nmBranch) >= 6
    /\ SubSeq(nmBranch, 1, 6) = <<"n", "i", "g", "h", "t", "/">>

\* C27: whenever run_nm_011 returns success true, README.md with the Night
\* Runner section is what the sandbox branch's commit holds and the working
\* tree holds the same file, in the first invocation and in later ones
\* (stated for a README.md that git does not ignore).
C27_SuccessMeansCommitted ==
    (nmPc = "returned" /\ nmResult.success /\ ~nmIgnored) =>
        /\ nmHead = "section"
        /\ nmWork = nmHead

----------------------------------------------------------------------------
(* Properties of create_local_sandbox_branches and of main (SpecMain) *)

\* C25: every commit a sandbox branch held when the run began is still on
\* that branch, in every working copy, whatever the preparation has done.
C25_SandboxBranchKeepsCommits ==
    \A r \in RepoNames : \A b \in SandboxBranchNames :
        sbBefore[r].branches[b] \subseteq sbRepos[r].branches[b]

\* C28: every branch name run_mission_executor has handed to the executor of
\* the mission being dispatched is the branch name
\* create_local_sandbox_branches computed for that mission.
C28_ExecutorBranchIsPreparedBranch ==
    mPc = "executor" =>
        \A i \in 1..Len(dCalls) : dCalls[i].branch = sbPrepared[mIdx]

----------------------------------------------------------------------------
(* Further properties of process_cycle_artifacts (SpecPipeline) and of     *)
(* parse_mission_results (SpecParse)                                       *)

\* C23: after process_cycle_artifacts has returned, logs_<name>.txt exists
\* and exec_<name>.json exists: with the metadata given when metadata was
\* given, as it was found when none was given and the file existed, and with
\* an empty metadata object when none was given and there was no file
\* (stated for the calls that give no metadata or metadata that is not empty).
C23_MetadataAlwaysMaterialized ==
    (pPc = "returned" /\ pExecArg # "empty") =>
        /\ runDir.logs.exists
        /\ runDir.exec.exists
        /\ pExecArg # "none" => runDir.exec = File(<<pExecArg>>)
        /\ (pExecArg = "none" /\ pBefore.exec.exists) => runDir.exec = pBefore.exec
        /\ (pExecArg = "none" /\ ~pBefore.exec.exists) => runDir.exec = File(<<"empty">>)

\* C29: whenever worker_results_<name>.jsonl exists after
\* process_cycle_artifacts has returned, it holds exactly the worker records
\* of the log that invocation materialized, in the first invocation and in
\* the second.
C29_WorkerTableMatchesLog ==
    (pPc = "returned" /\ runDir.worker_results.exists) =>
        runDir.worker_results.lines =
            [i \in 1..Len(SelectSeq(WorkerLines, LAMBDA raw : raw.payload.k = "object")) |->
                SelectSeq(WorkerLines, LAMBDA raw : raw.payload.k = "object")[i].payload]

\* C24: every entry parse_mission_results returns is a JSON object, and
\* summarize_missions formats the entries returned without raising.
C24_EveryEntryIsAnObject ==
    parsePc = "returned" =>
        /\ \A i \in 1..Len(parseResults) : parseResults[i].t = "dict"
        /\ summarize_missions(parseResults).raised = "no"
        /\ Len(summarize_missions(parseResults).lines) >= Len(parseResults)

----------------------------------------------------------------------------
(* Properties of latest_execution_name (SpecLatest) *)

\* the instant the start of an execution stands for, the minimum when the
\* start is missing or no timestamp
Parseable(item) == item.start.t = "stamp"
Instant(item) == IF Parseable(item) THEN item.start.at ELSE 0

\* C26: for an empty list latest_execution_name raises SystemExit; for a
\* list of named executions it returns the name of one whose start is
\* maximal, the executions without a parseable start counting as the
\* minimum, so that one of these is returned only when no execution has a
\* parseable start (stated for timestamps that carry "Z" or an offset).
C26_LatestByParsedStart ==
    (lePc = "done"
        /\ \A i \in 1..Len(leExecutions) :
              /\ Truthy(Get(leExecutions[i].name))
              /\ Parseable(leExecutions[i]) => leExecutions[i].start.zone # "none") =>
        IF leExecutions = <<>> THEN leOutcome.kind = "SystemExit"
        ELSE /\ leOutcome.kind = "returned"
             /\ \E i \in 1..Len(leExecutions) :
                   /\ leOutcome.name = leExecutions[i].name
                   /\ \A j \in 1..Len(leExecutions) :
                         Instant(leExecutions[j]) <= Instant(leExecutions[i])
                   /\ (\E j \in 1..Len(leExecutions) : Parseable(leExecutions[j]))
                         => Parseable(leExecutions[i])

----------------------------------------------------------------------------
(* Properties of ensure_spec_repo (SpecBootstrap) *)

\* C30: when ensure_spec_repo has returned, what was at spec_root is gone
\* only if a clone into it was attempted; in particular with the missions
\* directory missing and no token the spec root found is still there; and
\* with the missions directory present the disk is as it was found.
C30_RootRemovedOnlyForClone ==
    bsPc = "returned" =>
        /\ (bsBefore.root # "none" /\ bsRoot = "none") => bsCloneAttempts > 0
        /\ (~Truthy(bsToken) /\ bsBefore.root # "none") => bsRoot = bsBefore.root
        /\ MissionsDirPresent(bsBefore.root) => Disk(bsRoot, bsParent) = bsBefore

====
